---- MODULE Spec2Model ----
(***************************************************************************)
(* Model of the transcript extraction and incremental import pipeline of   *)
(* workshop: JSONLParser (src/workshop/src/jsonl_parser.py), the import    *)
(* command (src/workshop/src/cli.py, import_sessions) and the import       *)
(* checkpoint store (src/workshop/src/storage/import_history.py).          *)
(*                                                                         *)
(* Text is a sequence of tokens.  A token stands for a fixed phrase; its   *)
(* length, word count and count of special characters are those of the     *)
(* phrase.  Tokens are joined by one space, "dot" (a full stop) attaches   *)
(* to the token before it, "num" (a list number) starts a line and a       *)
(* heading token starts a line after an empty line.  No token other than   *)
(* "dot" holds a full stop.                                                *)
(***************************************************************************)
EXTENDS Integers, Sequences, FiniteSets, Bags, TLC

(***************************************************************************)
(* Tokens and their phrases                                                *)
(***************************************************************************)

\* The phrases the extractors' regular expressions and the noise filter look for.
Tokens ==
    { "we", "decided_to", "opted_for", "using", "because", "obj_sqlite", "obj_light",
      "dot", "be_careful", "error_colon", "prefer", "marker_full", "marker_short",
      "analysis", "longtail", "json_obj", "code_def", "hook", "h_summary", "h_fixed",
      "h_notes", "para", "perfect_ive", "is_now_working", "solution_includes",
      "great_now", "num", "item", "problem_was", "found_that", "cmd_git", "escaped",
      "ok", "gap", "plain" }

\* len(phrase) of a token.
TokLen(t) ==
    CASE t = "we" -> 2                 \* We
      [] t = "decided_to" -> 10        \* decided to
      [] t = "opted_for" -> 9          \* opted for
      [] t = "using" -> 5              \* using
      [] t = "because" -> 7            \* because
      [] t = "obj_sqlite" -> 28        \* SQLite for the storage layer
      [] t = "obj_light" -> 17         \* it is lightweight
      [] t = "dot" -> 1                \* .
      [] t = "be_careful" -> 10        \* be careful
      [] t = "error_colon" -> 6        \* Error:
      [] t = "prefer" -> 6             \* prefer
      [] t = "marker_full" -> 84       \* This session is being continued from a previous conversation that ran out of context
      [] t = "marker_short" -> 60      \* This session is being continued from a previous conversation
      [] t = "analysis" -> 9           \* Analysis:
      [] t = "longtail" -> 520         \* 520 characters of prose, no full stop
      [] t = "json_obj" -> 16          \* {"role": "user"}
      [] t = "code_def" -> 9           \* def parse
      [] t = "hook" -> 18              \* session-start-hook
      [] t = "h_summary" -> 10         \* ## Summary
      [] t = "h_fixed" -> 9            \* ## Fixed!
      [] t = "h_notes" -> 8            \* ## Notes
      [] t = "para" -> 120             \* 120 characters of prose, no full stop
      [] t = "perfect_ive" -> 16       \* Perfect! I've:\n\n
      [] t = "is_now_working" -> 29    \* is now working! The issue was
      [] t = "solution_includes" -> 23 \* The solution includes:\n
      [] t = "great_now" -> 10         \* Great! Now
      [] t = "num" -> 1                \* 1
      [] t = "item" -> 33              \* Added the checkpoint store module
      [] t = "problem_was" -> 20       \* The problem was that
      [] t = "found_that" -> 10        \* found that
      [] t = "cmd_git" -> 3            \* git
      [] t = "escaped" -> 11           \* line\nbreak (a literal backslash and n)
      [] t = "ok" -> 2                 \* OK
      [] t = "gap" -> 3                \* \n\n\n
      [] t = "plain" -> 38             \* The build finished without any trouble
      [] OTHER -> 100                  \* a chunk of tool output, 100 characters

\* len(phrase.split()) of a token.
TokWords(t) ==
    CASE t \in {"dot", "gap"} -> 0
      [] t \in {"we", "using", "because", "error_colon", "prefer", "analysis", "hook",
                "num", "cmd_git", "escaped", "ok"} -> 1
      [] t \in {"decided_to", "opted_for", "be_careful", "json_obj", "code_def",
                "h_summary", "h_fixed", "h_notes", "perfect_ive", "great_now",
                "found_that"} -> 2
      [] t \in {"obj_light", "solution_includes"} -> 3
      [] t = "problem_was" -> 4
      [] t \in {"obj_sqlite", "item"} -> 5
      [] t \in {"is_now_working", "plain"} -> 6
      [] t = "marker_short" -> 9
      [] t = "marker_full" -> 14
      [] t = "para" -> 20
      [] t = "longtail" -> 80
      [] OTHER -> 15

\* The characters of a token's phrase that are neither alphanumeric nor a space.
TokSpecial(t) ==
    CASE t \in {"dot", "error_colon", "analysis", "is_now_working", "great_now",
                "escaped"} -> 1
      [] t \in {"hook", "h_summary", "h_notes", "solution_includes"} -> 2
      [] t \in {"h_fixed", "gap"} -> 3
      [] t = "perfect_ive" -> 5
      [] t = "json_obj" -> 7
      [] OTHER -> 0

HeadingTokens == {"h_summary", "h_fixed", "h_notes"}

\* The characters between a token and the one before it: none before a full stop
\* or a run of newlines, an empty line before a heading, a newline before a list
\* number, a space otherwise.
SepLen(t) ==
    IF t \in {"dot", "gap"} THEN 0 ELSE IF t \in HeadingTokens THEN 2 ELSE 1

\* Whether a single space stands before token t.
SpaceBefore(t) == t \notin HeadingTokens \cup {"dot", "gap", "num"}

\* The separator's characters that are not spaces (newlines).
SepSpecial(t) ==
    IF t \in HeadingTokens THEN 2 ELSE IF t = "num" THEN 1 ELSE 0

RECURSIVE SumOver(_, _, _, _)
\* sum of f(s[i]) for i in from..to
SumOver(s, from, to, kind) ==
    IF from > to THEN 0
    ELSE (CASE kind = "len" -> TokLen(s[from])
            [] kind = "words" -> TokWords(s[from])
            [] kind = "special" -> TokSpecial(s[from])
            [] kind = "sep" -> SepLen(s[from])
            [] kind = "sepspecial" -> SepSpecial(s[from]))
         + SumOver(s, from + 1, to, kind)

\* len(text.strip()) of a token sequence: the phrases and the separators between them.
TextLen(s) ==
    SumOver(s, 1, Len(s), "len") + SumOver(s, 2, Len(s), "sep")

\* Characters of text.strip() that are neither alphanumeric nor a space.
TextSpecial(s) ==
    SumOver(s, 1, Len(s), "special") + SumOver(s, 2, Len(s), "sepspecial")

TextWords(s) == SumOver(s, 1, Len(s), "words")

\* Whether some token of s is in set S (a substring test for the phrases of S).
Contains(s, S) == \E i \in 1..Len(s) : s[i] \in S

\* Position of the first token in S at or after p; Len(s) + 1 when there is none.
FirstIn(s, p, S) ==
    IF \E i \in p..Len(s) : s[i] \in S
    THEN CHOOSE i \in p..Len(s) : s[i] \in S /\ \A j \in p..(i - 1) : s[j] \notin S
    ELSE Len(s) + 1

\* Position of the last token in S before p; 0 when there is none.
LastInBefore(s, p, S) ==
    IF \E i \in 1..(p - 1) : s[i] \in S
    THEN CHOOSE i \in 1..(p - 1) : s[i] \in S /\ \A j \in (i + 1)..(p - 1) : s[j] \notin S
    ELSE 0

(***************************************************************************)
(* Noise filter and sentence-quality filter                                *)
(***************************************************************************)

\* Phrases holding "This session is being continued from a previous conversation".
ContinuationTokens == {"marker_full", "marker_short"}

\* Phrases that start with '{', '[', '"role":' or '"message":'.
JsonStartTokens == {"json_obj"}

\* Phrases holding a code indicator ('```', 'def ', 'function ', 'class ', 'import ').
CodeTokens == {"code_def"}

\* Phrases holding 'session-start-hook' or 'session-end-hook'.
HookTokens == {"hook"}

\* Phrases that start with 'Error:', 'Traceback', 'AttributeError:', ...
ErrorPrefixTokens == {"error_colon"}

\* _is_noise's length threshold.
NoiseMinLen == 20

\* The filter with the test for text that looks like JSON before the exception for
\* continuation summaries.
IsNoiseJsonBeforeMarker(content) ==
    IF content = <<>> \/ TextLen(content) < NoiseMinLen THEN TRUE
    ELSE IF content[1] \in JsonStartTokens THEN TRUE
    ELSE IF Contains(content, ContinuationTokens) THEN FALSE
    ELSE IF Contains(content, CodeTokens) THEN TRUE
    ELSE IF Contains(content, HookTokens) THEN TRUE
    ELSE IF content[1] \in ErrorPrefixTokens THEN TRUE
    ELSE FALSE

\* JSONLParser._is_noise
IsNoise(content) ==
    IF content = <<>> \/ TextLen(content) < NoiseMinLen THEN TRUE
    ELSE IF Contains(content, ContinuationTokens) THEN FALSE
    ELSE IF content[1] \in JsonStartTokens THEN TRUE
    ELSE IF Contains(content, CodeTokens) THEN TRUE
    ELSE IF Contains(content, HookTokens) THEN TRUE
    ELSE IF content[1] \in ErrorPrefixTokens THEN TRUE
    ELSE FALSE

\* Phrases a low-quality sentence starts with ('$', '>', 'npm ', 'cd ', 'git ', ...).
CommandTokens == {"cmd_git"}

\* Phrases holding '{', '}' and '"'.
BraceQuoteTokens == {"json_obj"}

\* Phrases holding a literal backslash-n or backslash-t.
EscapeTokens == {"escaped"}

\* JSONLParser._is_low_quality_sentence
IsLowQualitySentence(sentence) ==
    IF TextLen(sentence) < 20 \/ TextLen(sentence) > 500 THEN TRUE
    ELSE IF 10 * TextSpecial(sentence) > 3 * TextLen(sentence) THEN TRUE
    ELSE IF sentence[1] \in CommandTokens /\ Len(sentence) > 1 /\ SpaceBefore(sentence[2])
         THEN TRUE
    ELSE IF Contains(sentence, BraceQuoteTokens) THEN TRUE
    ELSE IF Contains(sentence, EscapeTokens) THEN TRUE
    ELSE IF TextWords(sentence) < 4 THEN TRUE
    ELSE FALSE

(***************************************************************************)
(* Extracted entries                                                       *)
(***************************************************************************)

\* ExtractedEntry.  Confidence is in hundredths; reasoning <<>> is None.
Entry(type, content, reasoning, confidence, timestamp, uuid) ==
    [type |-> type, content |-> content, reasoning |-> reasoning,
     confidence |-> confidence, timestamp |-> timestamp, source_uuid |-> uuid]

\* JSONLParser._extract_sentence_around_match, for a match over tokens st..en.
ExtractSentenceAroundMatch(text, st, en) ==
    LET start == LastInBefore(text, st, {"dot"}) + 1
        end == FirstIn(text, en + 1, {"dot"})
    IN  SubSeq(text, start, end - 1)

\* Phrases in which re.search finds 'because', 'since', 'as' or 'to'.
ReasonTokens ==
    {"decided_to", "because", "obj_sqlite", "problem_was", "is_now_working", "item",
     "longtail", "para"}

\* The window _extract_reasoning looks at after a match.
ReasoningWindow == 200

\* Characters from the end of token en to the end of token j.
OffsetAfter(text, en, j) ==
    SumOver(text, en + 1, j, "len") + SumOver(text, en + 1, j, "sep")

\* JSONLParser._extract_reasoning, for a match ending at token en.
ExtractReasoning(content, en) ==
    LET inWindow(j) == OffsetAfter(content, en, j) <= ReasoningWindow
        d == FirstIn(content, en + 1, {"dot"})
        reasoning == SubSeq(content, en + 1, d - 1)
    IN  IF /\ \E j \in (en + 1)..Len(content) : inWindow(j) /\ content[j] \in ReasonTokens
           /\ d <= Len(content)
           /\ inWindow(d)
           /\ TextLen(reasoning) > 10
        THEN reasoning
        ELSE <<>>

\* Whether token t ends the line it is on, or token u starts a new one.
LineBreakAfter(t) == t \in {"perfect_ive", "solution_includes"}
LineBreakBefore(u) == u \in HeadingTokens \cup {"num", "gap"}

\* Last token of the line token p is on.
LineEnd(text, p) ==
    LET brk(i) == LineBreakAfter(text[i]) \/ (i < Len(text) /\ LineBreakBefore(text[i + 1]))
    IN  IF \E i \in p..Len(text) : brk(i)
        THEN CHOOSE i \in p..Len(text) : brk(i) /\ \A j \in p..(i - 1) : ~brk(j)
        ELSE Len(text)

\* 'using .* because' at token p: the last "because" of the line, 0 when no match.
UsingBecauseEnd(text, p) ==
    LET L == LineEnd(text, p)
        ends == {j \in (p + 2)..L : text[j] = "because"}
    IN  IF p < Len(text) /\ SpaceBefore(text[p + 1]) /\ ends # {}
        THEN CHOOSE j \in ends : \A k \in ends : k <= j
        ELSE 0

\* DECISION_KEYWORDS other than 'using .* because'.
DecisionTriggers == {"decided_to", "opted_for"}
\* GOTCHA_KEYWORDS
GotchaTriggers == {"be_careful", "error_colon"}
\* PREFERENCE_KEYWORDS
PreferenceTriggers == {"prefer"}

RECURSIVE DecisionMatches(_, _)
\* decision_pattern.finditer(content) from token p on: the matches <<start, end>>.
DecisionMatches(content, p) ==
    IF p > Len(content) THEN <<>>
    ELSE IF content[p] \in DecisionTriggers
         THEN <<<<p, p>>>> \o DecisionMatches(content, p + 1)
    ELSE IF content[p] = "using" /\ UsingBecauseEnd(content, p) # 0
         THEN <<<<p, UsingBecauseEnd(content, p)>>>>
              \o DecisionMatches(content, UsingBecauseEnd(content, p) + 1)
    ELSE DecisionMatches(content, p + 1)

RECURSIVE TriggerMatches(_, _, _)
\* pattern.finditer(content) for a pattern of single phrases.
TriggerMatches(content, p, triggers) ==
    IF p > Len(content) THEN <<>>
    ELSE IF content[p] \in triggers
         THEN <<<<p, p>>>> \o TriggerMatches(content, p + 1, triggers)
    ELSE TriggerMatches(content, p + 1, triggers)

RECURSIVE FlatMap(_, _)
\* Concatenation of the sequences of a sequence.
FlatMap(ss, i) == IF i > Len(ss) THEN <<>> ELSE ss[i] \o FlatMap(ss, i + 1)

\* The entries a sentence extractor yields for its matches.
SentenceEntries(content, matches, minLen, type, confidence, withReasoning, timestamp, uuid) ==
    FlatMap([k \in 1..Len(matches) |->
        LET sentence == ExtractSentenceAroundMatch(content, matches[k][1], matches[k][2])
        IN  IF sentence = <<>> \/ TextLen(sentence) < minLen THEN <<>>
            ELSE IF IsLowQualitySentence(sentence) THEN <<>>
            ELSE <<Entry(type, sentence,
                         IF withReasoning THEN ExtractReasoning(content, matches[k][2])
                         ELSE <<>>,
                         confidence, timestamp, uuid)>>], 1)

\* The decision extractor with a confidence derived from what it found: 0.90 for a
\* decision with a reasoning.
ExtractDecisionsRatedByReasoning(content, timestamp, uuid) ==
    LET found == SentenceEntries(content, DecisionMatches(content, 1), 20, "decision", 70,
                                 TRUE, timestamp, uuid)
    IN  [k \in 1..Len(found) |->
            IF found[k].reasoning # <<>> THEN [found[k] EXCEPT !.confidence = 90]
            ELSE found[k]]

\* JSONLParser._extract_decisions
ExtractDecisions(content, timestamp, uuid) ==
    SentenceEntries(content, DecisionMatches(content, 1), 20, "decision", 70, TRUE,
                    timestamp, uuid)

\* JSONLParser._extract_gotchas
ExtractGotchas(content, timestamp, uuid) ==
    SentenceEntries(content, TriggerMatches(content, 1, GotchaTriggers), 15, "gotcha", 80,
                    FALSE, timestamp, uuid)

\* JSONLParser._extract_preferences
ExtractPreferences(content, timestamp, uuid) ==
    SentenceEntries(content, TriggerMatches(content, 1, PreferenceTriggers), 15,
                    "preference", 60, FALSE, timestamp, uuid)

(***************************************************************************)
(* Section, summary and discovery extractors                               *)
(***************************************************************************)

RECURSIVE SectionMatches(_, _, _)
\* finditer of '##+ <heading>.*?(?=\n##|$)': from a heading in `heads` to the token
\* before the next heading, or to the end.
SectionMatches(content, p, heads) ==
    LET i == FirstIn(content, p, heads)
        j == FirstIn(content, i + 1, HeadingTokens)
    IN  IF i > Len(content) THEN <<>>
        ELSE <<<<i, j - 1>>>> \o SectionMatches(content, j, heads)

\* JSONLParser._extract_summary_sections
ExtractSummarySections(content, timestamp, uuid) ==
    LET ms == SectionMatches(content, 1, {"h_summary"})
    IN  FlatMap([k \in 1..Len(ms) |->
            LET summary_text == SubSeq(content, ms[k][1], ms[k][2])
            IN  IF TextLen(summary_text) < 100 THEN <<>>
                ELSE <<Entry("note", summary_text, <<>>, 90, timestamp, uuid)>>], 1)

\* Where a completion block stops: before '\n\n\n', before '\n\n##', or at the end.
BlockEnd(content, p) == FirstIn(content, p, HeadingTokens \cup {"gap"}) - 1

\* Whether ':', optional whitespace and a newline end token j: the phrase ends so,
\* or ends with ':' and the next token starts a line.
ColonNewlineAt(content, j) ==
    \/ content[j] \in {"perfect_ive", "solution_includes"}
    \/ /\ content[j] \in {"analysis", "error_colon"}
       /\ j < Len(content)
       /\ LineBreakBefore(content[j + 1])

RECURSIVE Completion1Matches(_, _)
\* finditer of completion_pattern_1: "Perfect! I've:", an empty line, the block.
Completion1Matches(content, p) ==
    LET i == FirstIn(content, p, {"perfect_ive"})
        e == BlockEnd(content, i + 1)
    IN  IF i > Len(content) THEN <<>>
        ELSE <<<<i, e>>>> \o Completion1Matches(content, e + 1)

RECURSIVE Completion2Matches(_, _)
\* finditer of completion_pattern_2: anything, whitespace, "is now working! The issue
\* was", anything, "The solution includes:", the block.  The match starts where the
\* scan stands.
Completion2Matches(content, p) ==
    LET cand == {i \in p..Len(content) :
                    /\ content[i] = "is_now_working"
                    /\ i > 1
                    /\ SepLen(content[i]) > 0
                    /\ \E j \in (i + 1)..Len(content) : content[j] = "solution_includes"}
        i == CHOOSE x \in cand : \A y \in cand : x <= y
        j == FirstIn(content, i + 1, {"solution_includes"})
        e == BlockEnd(content, j + 1)
    IN  IF p > Len(content) \/ cand = {} THEN <<>>
        ELSE <<<<p, e>>>> \o Completion2Matches(content, e + 1)

RECURSIVE Completion3Matches(_, _)
\* finditer of completion_pattern_3: "Great! Now", a phrase ending a line with ':',
\* the block.
Completion3Matches(content, p) ==
    LET cand == {i \in p..Len(content) :
                    /\ content[i] = "great_now"
                    /\ i < Len(content)
                    /\ SepLen(content[i + 1]) > 0
                    /\ \E j \in (i + 1)..Len(content) : ColonNewlineAt(content, j)}
        i == CHOOSE x \in cand : \A y \in cand : x <= y
        j == CHOOSE x \in (i + 1)..Len(content) :
                /\ ColonNewlineAt(content, x)
                /\ \A y \in (i + 1)..(x - 1) : ~ColonNewlineAt(content, y)
        e == BlockEnd(content, j + 1)
    IN  IF p > Len(content) \/ cand = {} THEN <<>>
        ELSE <<<<i, e>>>> \o Completion3Matches(content, e + 1)

\* re.findall(r'^\d+\.', text, re.MULTILINE): list numbers at the start of a line.
NumberedItems(text) ==
    Cardinality({i \in 1..(Len(text) - 1) : text[i] = "num" /\ text[i + 1] = "dot"})

\* JSONLParser._extract_completion_summaries
ExtractCompletionSummaries(content, timestamp, uuid) ==
    LET ms == Completion1Matches(content, 1) \o Completion2Matches(content, 1)
              \o Completion3Matches(content, 1)
    IN  FlatMap([k \in 1..Len(ms) |->
            LET completion_text == SubSeq(content, ms[k][1], ms[k][2])
            IN  IF NumberedItems(completion_text) < 2 THEN <<>>
                ELSE IF TextLen(completion_text) < 100 THEN <<>>
                ELSE <<Entry("note", completion_text, <<>>, 95, timestamp, uuid)>>], 1)

RECURSIVE ThroughDotMatches(_, _, _, _)
\* finditer of '<trigger> .+?\.': from a trigger phrase, followed by a space, through
\* the next full stop; on one line unless the pattern is compiled with DOTALL.
ThroughDotMatches(content, p, triggers, dotall) ==
    LET limit(i) == IF dotall THEN Len(content) ELSE LineEnd(content, i)
        cand == {i \in p..(Len(content) - 1) :
                    /\ content[i] \in triggers
                    /\ SpaceBefore(content[i + 1])
                    /\ \E d \in (i + 2)..limit(i) : content[d] = "dot"}
        i == CHOOSE x \in cand : \A y \in cand : x <= y
        d == FirstIn(content, i + 2, {"dot"})
    IN  IF cand = {} THEN <<>>
        ELSE <<<<i, d>>>> \o ThroughDotMatches(content, d + 1, triggers, dotall)

\* JSONLParser._extract_problem_solutions
ExtractProblemSolutions(content, timestamp, uuid) ==
    LET fs == SectionMatches(content, 1, {"h_fixed"})
        rs == ThroughDotMatches(content, 1, {"problem_was"}, TRUE)
    IN  FlatMap([k \in 1..Len(fs) |->
            LET fixed_text == SubSeq(content, fs[k][1], fs[k][2])
            IN  IF TextLen(fixed_text) > 50
                THEN <<Entry("note", fixed_text, <<>>, 90, timestamp, uuid)>>
                ELSE <<>>], 1)
        \o
        FlatMap([k \in 1..Len(rs) |->
            LET sentence == SubSeq(content, rs[k][1], rs[k][2])
            IN  IF TextLen(sentence) > 30 /\ TextLen(sentence) < 500
                THEN <<Entry("gotcha", sentence, <<>>, 85, timestamp, uuid)>>
                ELSE <<>>], 1)

\* JSONLParser._extract_discoveries
ExtractDiscoveries(content, timestamp, uuid) ==
    LET ms == ThroughDotMatches(content, 1, {"found_that"}, FALSE)
    IN  FlatMap([k \in 1..Len(ms) |->
            LET sentence == SubSeq(content, ms[k][1], ms[k][2])
            IN  IF /\ TextLen(sentence) > 20
                   /\ TextLen(sentence) < 300
                   /\ ~IsLowQualitySentence(sentence)
                THEN <<Entry("gotcha", sentence, <<>>, 80, timestamp, uuid)>>
                ELSE <<>>], 1)

\* JSONLParser._extract_compaction_summary.  "header" is the fixed
\* "# Session Continuation Summary" line put before the summary.
ExtractCompactionSummary(content, timestamp, uuid) ==
    LET a == FirstIn(content, 1, {"analysis"})
        summary_content == SubSeq(content, a + 1, Len(content))
    IN  IF /\ Contains(content, {"marker_full"})
           /\ a <= Len(content)
           /\ TextLen(summary_content) > 500
        THEN <<Entry("note", <<"header">> \o summary_content, <<>>, 100, timestamp, uuid)>>
        ELSE <<>>

(***************************************************************************)
(* Messages                                                                *)
(***************************************************************************)

\* msg.get('uuid', ''): the empty uuid of a message that has none.
NoUuid == 0

\* A content fragment: {type: text|thinking|tool_use|tool_result, ...}.  `content`
\* of a tool_result is its output in chunks of 100 characters.
Part(ptype, text, is_error, tool_use_id, content) ==
    [ptype |-> ptype, text |-> text, is_error |-> is_error,
     tool_use_id |-> tool_use_id, content |-> content]

TextPart(text) == Part("text", text, FALSE, FALSE, <<>>)
ThinkingPart(text) == Part("thinking", text, FALSE, FALSE, <<>>)
ToolResultPart(is_error, tool_use_id, content) ==
    Part("tool_result", <<>>, is_error, tool_use_id, content)

\* message.content: a string, a list of fragments, or absent.
StrContent(text) == [shape |-> "str", text |-> text, parts |-> <<>>]
ListContent(parts) == [shape |-> "list", text |-> <<>>, parts |-> parts]
NoContent == [shape |-> "absent", text |-> <<>>, parts |-> <<>>]

\* One decoded line that is a JSON object.  For a system message `content` is the
\* top-level content string; `summary` is the top-level summary ("" when absent).
Message(uuid, type, timestamp, content, summary) ==
    [kind |-> "msg", uuid |-> uuid, type |-> type, timestamp |-> timestamp,
     content |-> content, summary |-> summary]

\* ' '.join of the text and thinking fragments, tool fragments skipped.
RECURSIVE JoinTexts(_, _)
JoinTexts(parts, i) ==
    IF i > Len(parts) THEN <<>>
    ELSE (IF parts[i].ptype \in {"text", "thinking"} THEN parts[i].text ELSE <<>>)
         \o JoinTexts(parts, i + 1)

\* _get_message_content without the noise filter, whatever skip_noise_filter is.
GetMessageContentUnfiltered(message, skip_noise_filter) ==
    IF message.content.shape = "str" THEN message.content.text
    ELSE JoinTexts(message.content.parts, 1)

\* JSONLParser._get_message_content
GetMessageContent(message, skip_noise_filter) ==
    LET content == IF message.content.shape = "str" THEN message.content.text
                   ELSE JoinTexts(message.content.parts, 1)
    IN  IF ~skip_noise_filter /\ IsNoise(content) THEN <<>> ELSE content

\* error_content[:200]
ToolErrorMaxChunks == 2

\* JSONLParser._extract_tool_errors
ExtractToolErrors(message, timestamp, uuid) ==
    LET parts == message.content.parts
    IN  FlatMap([k \in 1..Len(parts) |->
            IF /\ parts[k].ptype = "tool_result"
               /\ parts[k].is_error
               /\ parts[k].content # <<>>
            THEN <<Entry("gotcha",
                         <<"tool_error">>
                         \o SubSeq(parts[k].content, 1,
                                   IF Len(parts[k].content) < ToolErrorMaxChunks
                                   THEN Len(parts[k].content) ELSE ToolErrorMaxChunks),
                         <<>>, 90, timestamp, uuid)>>
            ELSE <<>>], 1)

\* message.get('message', {}).get('content', [{}])[0] raises IndexError on an empty
\* list and on an empty string; it is evaluated for user messages only.
FirstContentRaises(message) ==
    /\ message.type = "user"
    /\ \/ message.content.shape = "list" /\ message.content.parts = <<>>
       \/ message.content.shape = "str" /\ message.content.text = <<>>

\* 'tool_use_id' in message...content[0]
FirstContentHasToolUseId(message) ==
    /\ message.content.shape = "list"
    /\ message.content.parts # <<>>
    /\ message.content.parts[1].tool_use_id

\* Whether _extract_from_message raises on the message.
ExtractFromMessageRaises(message) ==
    message.type \in {"user", "assistant"} /\ FirstContentRaises(message)

\* The extractors without the test on the type of the message for preferences.
ExtractFromMessageAnyRolePrefers(message) ==
    LET msg_type == message.type
        timestamp == message.timestamp
        uuid == message.uuid
        tool_errors == IF msg_type = "user" /\ FirstContentHasToolUseId(message)
                       THEN ExtractToolErrors(message, timestamp, uuid)
                       ELSE <<>>
        content == GetMessageContent(message, FALSE)
    IN  IF msg_type \notin {"user", "assistant"} THEN <<>>
        ELSE IF content = <<>> THEN tool_errors
        ELSE tool_errors
             \o (IF msg_type = "user"
                 THEN ExtractCompactionSummary(content, timestamp, uuid) ELSE <<>>)
             \o (IF msg_type = "assistant"
                 THEN ExtractSummarySections(content, timestamp, uuid) ELSE <<>>)
             \o (IF msg_type = "assistant"
                 THEN ExtractCompletionSummaries(content, timestamp, uuid) ELSE <<>>)
             \o (IF msg_type = "assistant"
                 THEN ExtractProblemSolutions(content, timestamp, uuid) ELSE <<>>)
             \o (IF msg_type = "assistant"
                 THEN ExtractDiscoveries(content, timestamp, uuid) ELSE <<>>)
             \o ExtractDecisions(content, timestamp, uuid)
             \o ExtractGotchas(content, timestamp, uuid)
             \o ExtractPreferences(content, timestamp, uuid)

\* JSONLParser._extract_from_message, when it does not raise.
ExtractFromMessage(message) ==
    LET msg_type == message.type
        timestamp == message.timestamp
        uuid == message.uuid
        tool_errors == IF msg_type = "user" /\ FirstContentHasToolUseId(message)
                       THEN ExtractToolErrors(message, timestamp, uuid)
                       ELSE <<>>
        content == GetMessageContent(message, FALSE)
    IN  IF msg_type \notin {"user", "assistant"} THEN <<>>
        ELSE IF content = <<>> THEN tool_errors
        ELSE tool_errors
             \o (IF msg_type = "user"
                 THEN ExtractCompactionSummary(content, timestamp, uuid) ELSE <<>>)
             \o (IF msg_type = "assistant"
                 THEN ExtractSummarySections(content, timestamp, uuid) ELSE <<>>)
             \o (IF msg_type = "assistant"
                 THEN ExtractCompletionSummaries(content, timestamp, uuid) ELSE <<>>)
             \o (IF msg_type = "assistant"
                 THEN ExtractProblemSolutions(content, timestamp, uuid) ELSE <<>>)
             \o (IF msg_type = "assistant"
                 THEN ExtractDiscoveries(content, timestamp, uuid) ELSE <<>>)
             \o ExtractDecisions(content, timestamp, uuid)
             \o ExtractGotchas(content, timestamp, uuid)
             \o (IF msg_type = "user"
                 THEN ExtractPreferences(content, timestamp, uuid) ELSE <<>>)

(***************************************************************************)
(* LLM extraction adapter                                                  *)
(***************************************************************************)

\* The parser's LLM set-up: whether a client object exists, and llm_type.
Parser(has_client, llm_type) == [has_client |-> has_client, llm_type |-> llm_type]

\* What the backend does with a request: raises, or answers with a text.  The text
\* is a sequence of "prose", "lbrace", "rbrace" and the bodies of BodyJson.
Response(raised, text) == [raised |-> raised, text |-> text]

\* One item of an array of the answer; is_dict is FALSE for an item that is not an
\* object (item.get raises AttributeError).
Item(is_dict, content, reasoning) ==
    [is_dict |-> is_dict, content |-> content, reasoning |-> reasoning]

\* The object a body between braces decodes to.
BodyJson(body) ==
    CASE body = "body_decision" ->
           [decisions |-> <<Item(TRUE, <<"we", "opted_for", "obj_sqlite">>, <<"obj_light">>)>>,
            gotchas |-> <<>>, preferences |-> <<>>]
      [] body = "body_mixed" ->
           [decisions |-> <<Item(TRUE, <<"we", "opted_for", "obj_sqlite">>, <<>>)>>,
            gotchas |-> <<Item(TRUE, <<"be_careful", "plain">>, <<"para">>),
                          Item(TRUE, <<"we", "opted_for", "obj_sqlite">>, <<>>)>>,
            preferences |-> <<Item(TRUE, <<"we", "prefer", "obj_light">>, <<>>)>>]
      [] body = "body_nocontent" ->
           [decisions |-> <<Item(TRUE, <<>>, <<"para">>)>>,
            gotchas |-> <<>>, preferences |-> <<>>]
      [] body = "body_notdict" ->
           [decisions |-> <<Item(TRUE, <<"we", "opted_for", "obj_sqlite">>, <<>>)>>,
            gotchas |-> <<Item(FALSE, <<>>, <<>>)>>, preferences |-> <<>>]

\* Bodies json.loads accepts between braces.
DecodableBodies == {"body_decision", "body_mixed", "body_nocontent", "body_notdict"}

\* re.search(r'\{[\s\S]*\}', llm_text): from the first '{' to the last '}'; <<>> when
\* there is no match.
JsonSpan(text) ==
    LET first == FirstIn(text, 1, {"lbrace"})
        last == LastInBefore(text, Len(text) + 1, {"rbrace"})
    IN  IF first <= Len(text) /\ first < last THEN SubSeq(text, first, last) ELSE <<>>

\* Whether json.loads raises on the span: it decodes '{}' and one body in braces.
JsonLoadsRaises(span) ==
    ~ \/ Len(span) = 2
      \/ Len(span) = 3 /\ span[2] \in DecodableBodies

\* json.loads(span), when it does not raise.
JsonLoads(span) ==
    IF Len(span) = 3 THEN BodyJson(span[2])
    ELSE [decisions |-> <<>>, gotchas |-> <<>>, preferences |-> <<>>]

\* The entries built from one array of the answer.
LlmEntries(items, type, timestamp, uuid) ==
    FlatMap([k \in 1..Len(items) |->
        IF items[k].content # <<>>
        THEN <<Entry(type, items[k].content, items[k].reasoning, 95, timestamp, uuid)>>
        ELSE <<>>], 1)

\* The shortest text the adapter sends to the backend.
LlmMinLen == 50

\* The adapter returning no entry, instead of falling back, when the answer holds no
\* JSON object.
LlmPathNoSpanSkips(parser, message, response) ==
    LET content == GetMessageContent(message, FALSE)
        span == JsonSpan(response.text)
        json == JsonLoads(span)
        items == json.decisions \o json.gotchas \o json.preferences
    IN  IF ~parser.has_client THEN "pattern"
        ELSE IF message.type \notin {"user", "assistant"} THEN "skip"
        ELSE IF content = <<>> \/ TextLen(content) < LlmMinLen THEN "skip"
        ELSE IF parser.llm_type \notin {"anthropic", "local"} THEN "pattern"
        ELSE IF response.raised THEN "pattern"
        ELSE IF span = <<>> THEN "skip"
        ELSE IF JsonLoadsRaises(span) THEN "pattern"
        ELSE IF \E k \in 1..Len(items) : ~items[k].is_dict THEN "pattern"
        ELSE "llm"

\* The path _extract_from_message_llm takes, in the order of its tests: "pattern"
\* (it returns _extract_from_message(message)), "skip" (it returns no entry and sends
\* no request) or "llm" (it returns the entries of the answer).
LlmPath(parser, message, response) ==
    LET content == GetMessageContent(message, FALSE)
        span == JsonSpan(response.text)
        json == JsonLoads(span)
        items == json.decisions \o json.gotchas \o json.preferences
    IN  IF ~parser.has_client THEN "pattern"
        ELSE IF message.type \notin {"user", "assistant"} THEN "skip"
        ELSE IF content = <<>> \/ TextLen(content) < LlmMinLen THEN "skip"
        ELSE IF parser.llm_type \notin {"anthropic", "local"} THEN "pattern"
        ELSE IF response.raised THEN "pattern"
        ELSE IF span = <<>> THEN "pattern"
        ELSE IF JsonLoadsRaises(span) THEN "pattern"
        ELSE IF \E k \in 1..Len(items) : ~items[k].is_dict THEN "pattern"
        ELSE "llm"

\* The adapter sending a request whatever the length of the text.
LlmRequestAnyLength(parser, message) ==
    LET content == GetMessageContent(message, FALSE)
    IN  /\ parser.has_client
        /\ message.type \in {"user", "assistant"}
        /\ content # <<>>
        /\ parser.llm_type \in {"anthropic", "local"}

\* Whether _extract_from_message_llm calls messages.create or
\* chat.completions.create for the message (lines 536-554): it has a client, has not
\* returned at lines 490-499, and llm_type names a backend.
LlmRequest(parser, message) ==
    LET content == GetMessageContent(message, FALSE)
    IN  /\ parser.has_client
        /\ message.type \in {"user", "assistant"}
        /\ ~(content = <<>> \/ TextLen(content) < LlmMinLen)
        /\ parser.llm_type \in {"anthropic", "local"}

\* Whether _extract_from_message_llm raises on the message.
ExtractFromMessageLlmRaises(parser, message, response) ==
    LlmPath(parser, message, response) = "pattern" /\ ExtractFromMessageRaises(message)

\* JSONLParser._extract_from_message_llm, when it does not raise.
ExtractFromMessageLlm(parser, message, response) ==
    LET json == JsonLoads(JsonSpan(response.text))
        path == LlmPath(parser, message, response)
    IN  IF path = "pattern" THEN ExtractFromMessage(message)
        ELSE IF path = "skip" THEN <<>>
        ELSE LlmEntries(json.decisions, "decision", message.timestamp, message.uuid)
             \o LlmEntries(json.gotchas, "gotcha", message.timestamp, message.uuid)
             \o LlmEntries(json.preferences, "preference", message.timestamp, message.uuid)

(***************************************************************************)
(* Reading and parsing a file                                              *)
(***************************************************************************)

\* A line of a file: empty, not decodable, decodable to a value that is not an
\* object, or a Message.
BlankLine == [kind |-> "blank"]
BadLine == [kind |-> "bad"]
NonObjectLine == [kind |-> "nonobj"]

\* A line whose bytes are not UTF-8: iterating the file raises UnicodeDecodeError
\* when it reaches the line.
GarbledLine == [kind |-> "garbled"]

\* JSONLParser._read_jsonl: the decoded lines, in file order; blank lines and lines
\* json.loads rejects are skipped; any other exception while reading makes it return
\* the empty list.
ReadJsonl(file) ==
    IF \E i \in 1..Len(file) : file[i] = GarbledLine THEN <<>>
    ELSE SelectSeq(file, LAMBDA line : line.kind \in {"msg", "nonobj"})

\* msg.get('uuid') of a decoded line that is an object.
GetUuid(msg) == msg.uuid

RECURSIVE FilterFromUuid(_, _, _, _)
\* JSONLParser._filter_from_uuid, from message i on.  A message without a uuid
\* never equals start_uuid.
FilterFromUuid(messages, start_uuid, i, found) ==
    IF i > Len(messages) THEN <<>>
    ELSE IF found THEN <<messages[i]>> \o FilterFromUuid(messages, start_uuid, i + 1, TRUE)
    ELSE FilterFromUuid(messages, start_uuid, i + 1,
                        GetUuid(messages[i]) # NoUuid /\ GetUuid(messages[i]) = start_uuid)

\* Whether _filter_from_uuid raises: it calls msg.get on every message up to the one
\* that matches, and a value that is not an object has no get.
FilterFromUuidRaises(messages, start_uuid) ==
    \E i \in 1..Len(messages) :
        /\ messages[i].kind = "nonobj"
        /\ \A j \in 1..(i - 1) :
              messages[j].kind = "nonobj" \/ GetUuid(messages[j]) # start_uuid

\* JSONLParser._extract_session_summary, when it does not raise.
ExtractSessionSummary(messages) ==
    LET i == CHOOSE k \in 1..Len(messages) :
                /\ messages[k].type = "summary" /\ messages[k].summary # ""
                /\ \A j \in 1..(k - 1) :
                      ~(messages[j].type = "summary" /\ messages[j].summary # "")
    IN  IF \E k \in 1..Len(messages) : messages[k].type = "summary" /\ messages[k].summary # ""
        THEN messages[i].summary
        ELSE ""

\* hashlib.md5(entry.content.encode('utf-8')).hexdigest(): equal for equal contents
\* only.
ContentHash(content) == <<"md5", content>>

\* The loop without the test on seen_content_hashes: every entry is kept.
DeduplicateKeepAll(candidates, i, seen, entries) == candidates

RECURSIVE Deduplicate(_, _, _, _)
\* The loop of parse_jsonl_file over the entries of the messages: an entry is kept
\* when its content hash was not seen before.
Deduplicate(candidates, i, seen, entries) ==
    IF i > Len(candidates) THEN entries
    ELSE IF ContentHash(candidates[i].content) \notin seen
         THEN Deduplicate(candidates, i + 1, seen \cup {ContentHash(candidates[i].content)},
                          Append(entries, candidates[i]))
    ELSE Deduplicate(candidates, i + 1, seen, entries)

\* SessionImportResult
SessionImportResult(session_summary, entries, last_uuid, last_timestamp, processed) ==
    [session_summary |-> session_summary, entries |-> entries,
     last_message_uuid |-> last_uuid, last_message_timestamp |-> last_timestamp,
     messages_processed |-> processed]

\* The pass with a fallback for an anchor that is not found: the whole file.
MessagesToProcessWholeFileWhenNotFound(file, start_uuid) ==
    IF /\ start_uuid # NoUuid
       /\ ReadJsonl(file) # <<>>
       /\ \E k \in 1..Len(ReadJsonl(file)) : GetUuid(ReadJsonl(file)[k]) = start_uuid
    THEN FilterFromUuid(ReadJsonl(file), start_uuid, 1, FALSE)
    ELSE ReadJsonl(file)

\* The messages parse_jsonl_file hands to the extractors.
MessagesToProcess(file, start_uuid) ==
    IF start_uuid # NoUuid /\ ReadJsonl(file) # <<>>
    THEN FilterFromUuid(ReadJsonl(file), start_uuid, 1, FALSE)
    ELSE ReadJsonl(file)

\* Whether _extract_session_summary raises: it calls msg.get on every message up to
\* the first summary.
ExtractSessionSummaryRaises(messages) ==
    \E i \in 1..Len(messages) :
        /\ messages[i].kind = "nonobj"
        /\ \A j \in 1..(i - 1) :
              \/ messages[j].kind = "nonobj"
              \/ ~(messages[j].type = "summary" /\ messages[j].summary # "")

\* Whether extract_fn(msg) raises on message i of the pass.  responses[i] is the
\* backend's answer for that message.
ExtractFnRaises(messages, i, use_llm, parser, responses) ==
    \/ messages[i].kind = "nonobj"
    \/ IF use_llm
       THEN ExtractFromMessageLlmRaises(parser, messages[i], responses[i])
       ELSE ExtractFromMessageRaises(messages[i])

\* Whether parse_jsonl_file raises: in _filter_from_uuid, in
\* _extract_session_summary, or on a message it hands to the extractors.
ParseJsonlFileRaises(file, start_uuid, use_llm, parser, responses) ==
    \/ /\ start_uuid # NoUuid
       /\ FilterFromUuidRaises(ReadJsonl(file), start_uuid)
    \/ ExtractSessionSummaryRaises(MessagesToProcess(file, start_uuid))
    \/ \E i \in 1..Len(MessagesToProcess(file, start_uuid)) :
          ExtractFnRaises(MessagesToProcess(file, start_uuid), i, use_llm, parser, responses)

\* The messages the loop of parse_jsonl_file hands to extract_fn: all of the pass, or
\* those up to the first on which extract_fn raises.
MessagesHanded(file, start_uuid, use_llm, parser, responses) ==
    LET messages == MessagesToProcess(file, start_uuid)
        raising == {i \in 1..Len(messages) :
                       ExtractFnRaises(messages, i, use_llm, parser, responses)}
    IN  IF \/ start_uuid # NoUuid /\ FilterFromUuidRaises(ReadJsonl(file), start_uuid)
           \/ ExtractSessionSummaryRaises(messages)
        THEN <<>>
        ELSE IF raising = {} THEN messages
        ELSE SubSeq(messages, 1, CHOOSE i \in raising : \A j \in raising : i <= j)

\* The entries extract_fn returns for the messages of the pass, in order, before
\* deduplication.
Candidates(messages, use_llm, parser, responses) ==
    FlatMap([i \in 1..Len(messages) |->
                IF use_llm
                THEN ExtractFromMessageLlm(parser, messages[i], responses[i])
                ELSE ExtractFromMessage(messages[i])], 1)

\* JSONLParser.parse_jsonl_file, when it does not raise.
ParseJsonlFile(file, start_uuid, use_llm, parser, responses) ==
    LET messages == MessagesToProcess(file, start_uuid)
        candidates == Candidates(messages, use_llm, parser, responses)
    IN  IF messages = <<>>
        THEN SessionImportResult("", <<>>, NoUuid, 0, 0)
        ELSE SessionImportResult(ExtractSessionSummary(messages),
                                 Deduplicate(candidates, 1, {}, <<>>),
                                 GetUuid(messages[Len(messages)]),
                                 messages[Len(messages)].timestamp,
                                 Len(messages))

(***************************************************************************)
(* The import command and the checkpoint store                             *)
(***************************************************************************)

\* Bounds of the model.
MaxLines == 2
MaxRuns == 2

\* The path of the one transcript the import command is given.
JsonlPath == "session.jsonl"

\* The lines an external writer appends; a message gets the position of its line as
\* uuid (uuids are unique within a file) and as timestamp.
LineOf(kind, pos) ==
    CASE kind = "blank" -> BlankLine
      [] kind = "bad" -> BadLine
      [] kind = "nonobj" -> NonObjectLine
      [] kind = "garbled" -> GarbledLine
      [] kind = "decision" ->
           Message(pos, "assistant", pos,
                   StrContent(<<"we", "decided_to", "obj_sqlite", "because", "obj_light", "dot">>),
                   "")
      [] kind = "twice" ->
           Message(pos, "assistant", pos,
                   StrContent(<<"we", "opted_for", "obj_sqlite", "dot",
                                "we", "opted_for", "obj_sqlite", "dot",
                                "be_careful", "plain", "dot">>),
                   "")
      [] kind = "toolerr" ->
           Message(pos, "user", pos,
                   ListContent(<<ToolResultPart(TRUE, TRUE, <<"denied">>),
                                 TextPart(<<"we", "prefer", "obj_light", "obj_sqlite", "dot">>)>>),
                   "")
      [] kind = "toolerr_late" ->
           Message(pos, "user", pos,
                   ListContent(<<TextPart(<<"ok">>),
                                 ToolResultPart(TRUE, TRUE, <<"denied", "chunk", "chunk">>)>>),
                   "")
      [] kind = "plain" ->
           Message(pos, "assistant", pos, StrContent(<<"plain", "dot">>), "")
      [] kind = "nouuid" ->
           Message(NoUuid, "user", pos, StrContent(<<"plain", "dot">>), "")
      [] kind = "empty" ->
           Message(pos, "user", pos, ListContent(<<>>), "")
      [] kind = "summary" ->
           Message(pos, "summary", pos, NoContent, "recap")

\* The kinds of line appended to the transcript while imports run.
AppendKinds == {"blank", "decision", "plain", "nouuid", "empty"}

\* JSONLParser.calculate_file_hash: SHA-256 of the bytes; equal for equal files only.
CalculateFileHash(file) == <<"sha256", file>>

\* A row of import_history (models.ImportHistory), without id and import_timestamp.
ImportHistoryRow(path, hash, last_uuid, last_timestamp, messages_imported, entries_created) ==
    [jsonl_path |-> path, jsonl_hash |-> hash, last_message_uuid |-> last_uuid,
     last_message_timestamp |-> last_timestamp, messages_imported |-> messages_imported,
     entries_created |-> entries_created]

\* ImportHistoryManager.get_last_import: the rows of the path (none or one).
GetLastImport(history, path) == {row \in history : row.jsonl_path = path}

\* record_import that leaves the row of a path it already knows as it is.
RecordImportInsertOnly(history, path, hash, last_uuid, last_timestamp, messages_imported, entries_created) ==
    IF \E row \in history : row.jsonl_path = path THEN history
    ELSE history \cup {ImportHistoryRow(path, hash, last_uuid, last_timestamp,
                                        messages_imported, entries_created)}

\* ImportHistoryManager.record_import: update the row of the path, or add one.
RecordImport(history, path, hash, last_uuid, last_timestamp, messages_imported, entries_created) ==
    {row \in history : row.jsonl_path # path}
    \cup {ImportHistoryRow(path, hash, last_uuid, last_timestamp, messages_imported,
                           entries_created)}

\* The test with the comparison of hashes the wrong way round: a file is skipped
\* when its hash differs from the stored one.
UpToDateWhenChanged(last_import, force, file) ==
    /\ last_import # {}
    /\ ~force
    /\ \E row \in last_import : CalculateFileHash(file) # row.jsonl_hash

\* The test of import_sessions that skips a file: a checkpoint exists, --force is not
\* given, and the hash of the file is the stored one.
UpToDate(last_import, force, file) ==
    /\ last_import # {}
    /\ ~force
    /\ \E row \in last_import : CalculateFileHash(file) = row.jsonl_hash

\* The uuid import_sessions passes to parse_jsonl_file as start_from_uuid.
StartUuid(last_import, force) ==
    IF last_import # {} /\ ~force
    THEN (CHOOSE row \in last_import : TRUE).last_message_uuid
    ELSE NoUuid

\* The options of one invocation of `workshop import`.
Options(execute, force, use_llm, interactive, since, store_raw_messages) ==
    [execute |-> execute, force |-> force, use_llm |-> use_llm,
     interactive |-> interactive, since |-> since,
     store_raw_messages |-> store_raw_messages]

\* --since: not given, or a cutoff date.
NoSince == [given |-> FALSE, cutoff |-> 0]
Since(cutoff) == [given |-> TRUE, cutoff |-> cutoff]

\* The invocations the model runs.
Invocations ==
    { Options(FALSE, FALSE, FALSE, FALSE, NoSince, TRUE),
      Options(FALSE, TRUE, TRUE, TRUE, NoSince, TRUE),
      Options(TRUE, FALSE, FALSE, FALSE, NoSince, FALSE),
      Options(TRUE, TRUE, FALSE, FALSE, NoSince, FALSE),
      Options(TRUE, FALSE, TRUE, FALSE, NoSince, FALSE),
      Options(TRUE, FALSE, FALSE, TRUE, Since(2), TRUE) }

\* The answers of the backend in a run with --llm: it is down, it answers without
\* JSON, or it answers with one decision.
RunResponses ==
    { Response(TRUE, <<>>),
      Response(FALSE, <<"prose">>),
      Response(FALSE, <<"lbrace", "body_decision", "rbrace">>) }

\* The entries of a result the import keeps: confidence at least 0.6 and, with
\* --since, a timestamp not before the cutoff.
FilterEntries(result_entries, since) ==
    SelectSeq(result_entries,
              LAMBDA entry : /\ ~(entry.confidence < 60)
                             /\ ~(since.given /\ entry.timestamp < since.cutoff))

\* The arguments of store.add_entry for an entry.
StoredEntry(entry) ==
    [entry_type |-> entry.type, content |-> entry.content,
     reasoning |-> entry.reasoning, timestamp |-> entry.timestamp]

RECURSIVE AddEntries(_, _, _)
\* store.add_entry for the entries from i on.
AddEntries(store, es, i) ==
    IF i > Len(es) THEN store
    ELSE AddEntries(store (+) SetToBag({StoredEntry(es[i])}), es, i + 1)

\* The uuids of the raw messages stored with --store-raw-messages.
RawMessagesToStore(file) ==
    {ReadJsonl(file)[i].uuid : i \in {k \in 1..Len(ReadJsonl(file)) :
                                        /\ ReadJsonl(file)[k].kind = "msg"
                                        /\ ReadJsonl(file)[k].uuid # NoUuid}}

\* The command going on to import whether or not --execute is given.
AfterSummaryAlwaysImports(execute) == "parsed"

\* import_sessions, lines 1544-1546: without --execute the command returns after the
\* summary; with it, it goes on to import what it parsed.
AfterSummary(execute) == IF execute THEN "parsed" ELSE "idle"

VARIABLES
    jsonl_file,       \* the lines of the transcript at JsonlPath
    import_history,   \* the rows of table import_history
    entries,          \* the bag of entries handed to store.add_entry
    raw_messages,     \* the uuids of the stored raw messages
    pc,               \* where the import command stands: "idle", "checked", "parsed"
    run,              \* the invocation under way, or the last one
    nruns,            \* invocations started
    probe             \* a call of parse_jsonl_file or of the adapter on its own

vars == <<jsonl_file, import_history, entries, raw_messages, pc, run, nruns, probe>>

NoResult == SessionImportResult("", <<>>, NoUuid, 0, 0)

\* The record of an invocation when it starts: its options, what get_last_import
\* returned and the uuid it resumes from; then the file parse_jsonl_file read, the
\* messages it handed to the extractors, its result, the entries the filters kept
\* and the entries handed to storage.  Two fields keep the past: whether every
\* earlier invocation was executed, without --force, and wrote its checkpoint when
\* it came to write one; and, as long as that is so, the timestamps of the messages
\* the earlier invocations handed to the extractors.
RunRecord(options, last_import, start_uuid, outcome) ==
    [options |-> options, last_import |-> last_import, start_uuid |-> start_uuid,
     file_at_parse |-> <<>>, processed |-> <<>>, result |-> NoResult,
     filtered_entries |-> <<>>, imported |-> <<>>, outcome |-> outcome,
     handed_before |-> {}, plain_runs_before |-> TRUE]

NoProbe == [kind |-> "none"]

\* The import command before its first invocation, on an empty transcript and an
\* empty database.
Idle ==
    /\ jsonl_file = <<>>
    /\ import_history = {}
    /\ entries = EmptyBag
    /\ raw_messages = {}
    /\ pc = "idle"
    /\ run = RunRecord(Options(FALSE, FALSE, FALSE, FALSE, NoSince, FALSE), {}, NoUuid,
                       "none")
    /\ nruns = 0

Init ==
    /\ Idle
    /\ probe = NoProbe

\* The session that writes the transcript appends a line, at any moment.
AppendLine ==
    /\ Len(jsonl_file) < MaxLines
    /\ \E kind \in AppendKinds :
          jsonl_file' = Append(jsonl_file, LineOf(kind, Len(jsonl_file) + 1))
    /\ UNCHANGED <<import_history, entries, raw_messages, pc, run, nruns, probe>>

\* import_sessions, lines 1471-1485: look the checkpoint up; skip the file when its
\* hash is the stored one.
CheckFile ==
    /\ pc = "idle"
    /\ nruns < MaxRuns
    /\ \E options \in Invocations :
          LET last_import == GetLastImport(import_history, JsonlPath)
              start_uuid == StartUuid(last_import, options.force)
              skipped == UpToDate(last_import, options.force, jsonl_file)
              plain == /\ run.plain_runs_before
                       /\ \/ run.outcome = "none"
                          \/ /\ run.options.execute
                             /\ ~run.options.force
                             /\ run.outcome # "record_failed"
          IN  /\ run' = [RunRecord(options, last_import, start_uuid,
                                   IF skipped THEN "skipped" ELSE "checking")
                            EXCEPT
                               !.plain_runs_before = plain,
                               !.handed_before =
                                   IF plain
                                   THEN run.handed_before
                                        \cup {run.processed[i].timestamp :
                                                 i \in 1..Len(run.processed)}
                                   ELSE {}]
              /\ pc' = IF skipped THEN "idle" ELSE "checked"
    /\ nruns' = nruns + 1
    /\ UNCHANGED <<jsonl_file, import_history, entries, raw_messages, probe>>

\* import_sessions, lines 1487-1546: parse the file, filter the entries; a preview
\* ends here.
ParseFile ==
    /\ pc = "checked"
    /\ \E response \in RunResponses :
          LET parser == IF run.options.use_llm THEN Parser(TRUE, "anthropic")
                        ELSE Parser(FALSE, "none")
              responses == [i \in 1..Len(jsonl_file) |-> response]
              raises == ParseJsonlFileRaises(jsonl_file, run.start_uuid, run.options.use_llm,
                                             parser, responses)
              result == ParseJsonlFile(jsonl_file, run.start_uuid, run.options.use_llm,
                                       parser, responses)
          IN  /\ run.options.use_llm \/ response = Response(TRUE, <<>>)
              /\ IF raises
                 THEN /\ run' = [run EXCEPT
                            !.file_at_parse = jsonl_file,
                            !.processed = MessagesHanded(jsonl_file, run.start_uuid,
                                                         run.options.use_llm, parser, responses),
                            !.outcome = "failed"]
                      /\ pc' = "idle"
                 ELSE /\ run' = [run EXCEPT
                            !.file_at_parse = jsonl_file,
                            !.processed = MessagesToProcess(jsonl_file, run.start_uuid),
                            !.result = result,
                            !.filtered_entries = FilterEntries(result.entries, run.options.since),
                            !.outcome = IF run.options.execute THEN "parsed" ELSE "preview"]
                      /\ pc' = AfterSummary(run.options.execute)
    /\ UNCHANGED <<jsonl_file, import_history, entries, raw_messages, nruns, probe>>

\* import_sessions, lines 1554-1656: hand the entries to storage (those the user
\* accepts, with --interactive), store the raw messages, hash the file and record the
\* import.
RecordFile ==
    /\ pc = "parsed"
    /\ \E keep \in SUBSET (1..Len(run.filtered_entries)) :
          LET reviewed == SelectSeq([i \in 1..Len(run.filtered_entries) |->
                                        [i |-> i, entry |-> run.filtered_entries[i]]],
                                    LAMBDA x : x.i \in keep)
              imported == [i \in 1..Len(reviewed) |-> reviewed[i].entry]
          IN  /\ run.options.interactive \/ keep = 1..Len(run.filtered_entries)
              /\ entries' = AddEntries(entries, imported, 1)
              /\ raw_messages' = IF run.options.store_raw_messages
                                 THEN raw_messages \cup RawMessagesToStore(jsonl_file)
                                 ELSE raw_messages
              /\ import_history' =
                    RecordImport(import_history, JsonlPath, CalculateFileHash(jsonl_file),
                                 run.result.last_message_uuid,
                                 run.result.last_message_timestamp,
                                 run.result.messages_processed, Len(imported))
              /\ run' = [run EXCEPT !.imported = imported, !.outcome = "recorded"]
    /\ pc' = "idle"
    /\ UNCHANGED <<jsonl_file, nruns, probe>>

\* import_sessions, lines 1554-1656, when record_import raises (the database is
\* locked or full at its commit): the entries and the raw messages are in storage,
\* each add_entry having committed, no row is written, and the exception ends the
\* command.
RecordFileFails ==
    /\ pc = "parsed"
    /\ \E keep \in SUBSET (1..Len(run.filtered_entries)) :
          LET reviewed == SelectSeq([i \in 1..Len(run.filtered_entries) |->
                                        [i |-> i, entry |-> run.filtered_entries[i]]],
                                    LAMBDA x : x.i \in keep)
              imported == [i \in 1..Len(reviewed) |-> reviewed[i].entry]
          IN  /\ run.options.interactive \/ keep = 1..Len(run.filtered_entries)
              /\ entries' = AddEntries(entries, imported, 1)
              /\ raw_messages' = IF run.options.store_raw_messages
                                 THEN raw_messages \cup RawMessagesToStore(jsonl_file)
                                 ELSE raw_messages
              /\ run' = [run EXCEPT !.imported = imported, !.outcome = "record_failed"]
    /\ pc' = "idle"
    /\ UNCHANGED <<jsonl_file, import_history, nruns, probe>>

Next == AppendLine \/ CheckFile \/ ParseFile \/ RecordFile \/ RecordFileFails

Spec == Init /\ [][Next]_vars

(***************************************************************************)
(* parse_jsonl_file and _extract_from_message_llm on their own             *)
(***************************************************************************)

\* Bound of the files handed to parse_jsonl_file.
MaxFileLen == 3

\* The kinds of line of those files.
ParseKinds ==
    {"blank", "bad", "garbled", "decision", "twice", "toolerr", "toolerr_late", "nouuid",
     "empty"}

\* The files of n lines.
Files(n) == {[i \in 1..n |-> LineOf(kinds[i], i)] : kinds \in [1..n -> ParseKinds]}

\* A call of parse_jsonl_file and, once done, what it handed to the extractors,
\* what they returned, and its result.
ParseCall(file, start_uuid, use_llm, response) ==
    [kind |-> "parse", file |-> file, start_uuid |-> start_uuid, use_llm |-> use_llm,
     response |-> response, done |-> FALSE, raised |-> FALSE, messages |-> <<>>,
     candidates |-> <<>>, result |-> NoResult]

InitParse ==
    /\ Idle
    /\ \E file \in UNION {Files(k) : k \in 0..MaxFileLen}, start_uuid \in 0..(MaxFileLen + 1),
          use_llm \in BOOLEAN, response \in RunResponses :
          /\ use_llm \/ response = Response(TRUE, <<>>)
          /\ probe = ParseCall(file, start_uuid, use_llm, response)

\* parser.parse_jsonl_file(file, start_from_uuid, use_llm)
CallParseJsonlFile ==
    /\ probe.kind = "parse"
    /\ ~probe.done
    /\ LET parser == IF probe.use_llm THEN Parser(TRUE, "anthropic")
                     ELSE Parser(FALSE, "none")
           responses == [i \in 1..Len(probe.file) |-> probe.response]
           raises == ParseJsonlFileRaises(probe.file, probe.start_uuid, probe.use_llm,
                                          parser, responses)
           messages == MessagesToProcess(probe.file, probe.start_uuid)
       IN  probe' = IF raises
                    THEN [probe EXCEPT !.done = TRUE, !.raised = TRUE]
                    ELSE [probe EXCEPT
                             !.done = TRUE,
                             !.messages = messages,
                             !.candidates = Candidates(messages, probe.use_llm, parser,
                                                       responses),
                             !.result = ParseJsonlFile(probe.file, probe.start_uuid,
                                                       probe.use_llm, parser, responses)]
    /\ UNCHANGED <<jsonl_file, import_history, entries, raw_messages, pc, run, nruns>>

SpecParse == InitParse /\ [][CallParseJsonlFile]_vars

\* The messages handed to _extract_from_message_llm; the last two have texts of 49
\* and of 50 characters, and two user messages start with a failed tool_result, one
\* with a text of over 50 characters and one with a text of two.
LlmMessages ==
    {LineOf(kind, 1) : kind \in {"decision", "twice", "toolerr", "plain", "nouuid",
                                  "empty", "summary"}}
    \cup {Message(1, "user", 1,
                  ListContent(<<ToolResultPart(TRUE, TRUE, <<"denied">>),
                                TextPart(<<"ok">>)>>), ""),
          Message(1, "user", 1,
                  StrContent(<<"we", "prefer", "obj_light", "obj_sqlite", "because",
                               "obj_light", "dot">>), ""),
          Message(1, "assistant", 1, StrContent(<<"ok">>), ""),
          Message(1, "assistant", 1, StrContent(<<"plain", "decided_to">>), ""),
          Message(1, "assistant", 1, StrContent(<<"plain", "be_careful", "dot">>), "")}

\* The parsers: no backend, the two backends, and a client of an unknown type.
LlmParsers ==
    {Parser(FALSE, "none"), Parser(TRUE, "anthropic"), Parser(TRUE, "local"),
     Parser(TRUE, "none")}

\* The answers of the backend: an error, text without a JSON object, an opening
\* brace only, and objects that decode or do not.
LlmResponses ==
    RunResponses
    \cup {Response(FALSE, <<"prose", "lbrace">>),
          Response(FALSE, <<"lbrace", "body_broken", "rbrace">>),
          Response(FALSE, <<"prose", "lbrace", "body_mixed", "rbrace", "prose">>),
          Response(FALSE, <<"lbrace", "body_nocontent", "rbrace">>),
          Response(FALSE, <<"lbrace", "body_notdict", "rbrace">>)}

\* A call of _extract_from_message_llm and, once done, whether it sent a request to
\* the backend and what it returned.
LlmCall(parser, message, response) ==
    [kind |-> "llm", parser |-> parser, message |-> message, response |-> response,
     done |-> FALSE, raised |-> FALSE, requested |-> FALSE, entries |-> <<>>]

InitLlm ==
    /\ Idle
    /\ \E parser \in LlmParsers, message \in LlmMessages, response \in LlmResponses :
          probe = LlmCall(parser, message, response)

\* parser._extract_from_message_llm(message)
CallExtractFromMessageLlm ==
    /\ probe.kind = "llm"
    /\ ~probe.done
    /\ probe' = IF ExtractFromMessageLlmRaises(probe.parser, probe.message, probe.response)
                THEN [probe EXCEPT
                         !.done = TRUE, !.raised = TRUE,
                         !.requested = LlmRequest(probe.parser, probe.message)]
                ELSE [probe EXCEPT
                         !.done = TRUE,
                         !.requested = LlmRequest(probe.parser, probe.message),
                         !.entries = ExtractFromMessageLlm(probe.parser, probe.message,
                                                           probe.response)]
    /\ UNCHANGED <<jsonl_file, import_history, entries, raw_messages, pc, run, nruns>>

SpecLlm == InitLlm /\ [][CallExtractFromMessageLlm]_vars

(***************************************************************************)
(* _extract_from_message and _is_noise on their own                        *)
(***************************************************************************)

\* "I prefer ..." in one sentence, and the same after a sentence with a decision.
PreferenceSentence == <<"we", "prefer", "obj_light", "obj_sqlite", "dot">>
DecisionThenPreference == <<"we", "decided_to", "obj_sqlite", "dot">> \o PreferenceSentence

\* Texts each of which one extractor takes an entry from: a preference, a compaction
\* summary, a "## Summary" section, a completion summary with three numbered items,
\* a "## Fixed!" section, a root cause, a discovery, a decision, a gotcha; and texts
\* that are noise: one that starts like JSON, one that names a session hook before a
\* decision and a preference, and two that are too short.
ExtractTexts ==
    { PreferenceSentence,
      DecisionThenPreference,
      <<"marker_full", "dot", "analysis", "longtail">>,
      <<"h_summary", "para">>,
      <<"perfect_ive", "num", "dot", "item", "num", "dot", "item", "num", "dot", "item">>,
      <<"h_fixed", "para">>,
      <<"problem_was", "obj_sqlite", "dot">>,
      <<"we", "found_that", "obj_sqlite", "dot">>,
      <<"be_careful", "plain", "dot">>,
      <<"json_obj", "we", "prefer", "obj_light", "obj_sqlite", "dot">>,
      <<"hook", "dot">> \o DecisionThenPreference,
      <<"ok">>,
      <<>> }

\* The messages handed to _extract_from_message: each text, as a string, as a list
\* with one text fragment and as a list with a failed tool result before the text
\* fragment, in a message of each type.
ExtractMessages ==
    {Message(1, type, 1, content, "") :
        type \in {"user", "assistant", "system", "summary"},
        content \in {StrContent(text) : text \in ExtractTexts}
                    \cup {ListContent(<<TextPart(text)>>) : text \in ExtractTexts}
                    \cup {ListContent(<<ToolResultPart(TRUE, TRUE, <<"denied">>),
                                         TextPart(text)>>) : text \in ExtractTexts}
                    \cup {ListContent(<<>>)}}

\* A call of _extract_from_message and, once done, what it returned.
ExtractCall(message) ==
    [kind |-> "extract", message |-> message, done |-> FALSE, raised |-> FALSE,
     entries |-> <<>>]

\* The texts handed to _is_noise: an optional first phrase that starts like JSON or
\* like an error message, then any of the continuation marker, a code keyword and a
\* hook marker, then an optional sentence.
NoiseTexts ==
    {first \o marker \o code \o hook \o rest :
        first \in {<<>>, <<"json_obj">>, <<"error_colon">>},
        marker \in {<<>>, <<"marker_short">>},
        code \in {<<>>, <<"code_def">>},
        hook \in {<<>>, <<"hook">>},
        rest \in {<<>>, <<"plain">>}}

\* A call of _is_noise and, once done, what it returned.
NoiseCall(content) ==
    [kind |-> "noise", content |-> content, done |-> FALSE, is_noise |-> FALSE]

InitExtract ==
    /\ Idle
    /\ \/ \E message \in ExtractMessages : probe = ExtractCall(message)
       \/ \E content \in NoiseTexts : probe = NoiseCall(content)

\* parser._extract_from_message(message)
CallExtractFromMessage ==
    /\ probe.kind = "extract"
    /\ ~probe.done
    /\ probe' = IF ExtractFromMessageRaises(probe.message)
                THEN [probe EXCEPT !.done = TRUE, !.raised = TRUE]
                ELSE [probe EXCEPT !.done = TRUE,
                                   !.entries = ExtractFromMessage(probe.message)]
    /\ UNCHANGED <<jsonl_file, import_history, entries, raw_messages, pc, run, nruns>>

\* parser._is_noise(content)
CallIsNoise ==
    /\ probe.kind = "noise"
    /\ ~probe.done
    /\ probe' = [probe EXCEPT !.done = TRUE, !.is_noise = IsNoise(probe.content)]
    /\ UNCHANGED <<jsonl_file, import_history, entries, raw_messages, pc, run, nruns>>

SpecExtract == InitExtract /\ [][CallExtractFromMessage \/ CallIsNoise]_vars

(***************************************************************************)
(* The checkpoint store on its own                                         *)
(***************************************************************************)

\* Bound on the calls made to the store.
MaxCalls == 3

\* project_id None: the manager of a single-tenant (SQLite) database.
NoProject == "none"

\* The managers that share one database: the one of its single project, or those of
\* the projects of a multi-tenant database.
Managers(mode) == IF mode = "single" THEN {NoProject} ELSE {"project_a", "project_b"}

\* The paths recorded.
JsonlPaths == {JsonlPath, "other.jsonl"}

\* A row of table import_history with its project_id.
ProjectImportHistoryRow(project_id, path, hash, last_uuid, last_timestamp, messages_imported, entries_created) ==
    [project_id |-> project_id]
    @@ ImportHistoryRow(path, hash, last_uuid, last_timestamp, messages_imported,
                        entries_created)

\* ImportHistoryManager.record_import of the manager of project_id: the row of the
\* path is looked up by filter_by(jsonl_path=jsonl_path), whatever its project, and
\* updated (its project_id is left as it is); without one a row is added.
ManagerRecordImport(table, project_id, path, hash, last_uuid, last_timestamp, messages_imported, entries_created) ==
    IF \E existing \in table : existing.jsonl_path = path
    THEN {IF row.jsonl_path = path
          THEN [row EXCEPT !.jsonl_hash = hash, !.last_message_uuid = last_uuid,
                           !.last_message_timestamp = last_timestamp,
                           !.messages_imported = messages_imported,
                           !.entries_created = entries_created]
          ELSE row : row \in table}
    ELSE table \cup {ProjectImportHistoryRow(project_id, path, hash, last_uuid,
                                             last_timestamp, messages_imported,
                                             entries_created)}

\* ImportHistoryManager.get_last_import of the manager of project_id: the row of the
\* path and, when the manager has a project, of that project; the empty set is None.
ManagerGetLastImport(table, project_id, path) ==
    {ImportHistoryRow(row.jsonl_path, row.jsonl_hash, row.last_message_uuid,
                      row.last_message_timestamp, row.messages_imported,
                      row.entries_created) :
        row \in {r \in table : /\ r.jsonl_path = path
                               /\ project_id # NoProject => r.project_id = project_id}}

\* No call yet.
NoCall == [op |-> "none"]

\* The database (mode, table) and the calls made on it: for each path the latest
\* record_import (its manager and its row), and the latest call with its result.
StoreCalls(mode) ==
    [kind |-> "store", mode |-> mode, table |-> {}, ncalls |-> 0,
     latest |-> [path \in JsonlPaths |-> NoCall], call |-> NoCall]

InitStore ==
    /\ Idle
    /\ \E mode \in {"single", "multi"} : probe = StoreCalls(mode)

\* manager.record_import(path, hash, last_uuid, last_timestamp, messages, entries)
CallRecordImport ==
    /\ probe.kind = "store"
    /\ probe.ncalls < MaxCalls
    /\ \E project_id \in Managers(probe.mode), path \in JsonlPaths,
          hash \in {"h1", "h2"}, last_uuid \in {NoUuid, 1}, messages \in {1, 2} :
          LET row == ImportHistoryRow(path, hash, last_uuid, last_uuid, messages,
                                      messages - 1)
          IN  probe' = [probe EXCEPT
                  !.table = ManagerRecordImport(probe.table, project_id, path, hash,
                                                last_uuid, last_uuid, messages,
                                                messages - 1),
                  !.ncalls = probe.ncalls + 1,
                  !.latest[path] = [op |-> "record_import", project_id |-> project_id,
                                    row |-> row],
                  !.call = [op |-> "record_import", project_id |-> project_id,
                            path |-> path]]
    /\ UNCHANGED <<jsonl_file, import_history, entries, raw_messages, pc, run, nruns>>

\* manager.get_last_import(path)
CallGetLastImport ==
    /\ probe.kind = "store"
    /\ probe.ncalls < MaxCalls
    /\ \E project_id \in Managers(probe.mode), path \in JsonlPaths :
          probe' = [probe EXCEPT
              !.ncalls = probe.ncalls + 1,
              !.call = [op |-> "get_last_import", project_id |-> project_id,
                        path |-> path,
                        result |-> ManagerGetLastImport(probe.table, project_id, path)]]
    /\ UNCHANGED <<jsonl_file, import_history, entries, raw_messages, pc, run, nruns>>

SpecStore == InitStore /\ [][CallRecordImport \/ CallGetLastImport]_vars

(***************************************************************************)
(* why_search on its own (src/workshop/src/storage_sqlite.py)              *)
(***************************************************************************)

\* Bound on the stored entries that match the query.
MaxStored == 4

\* datetime.now() at the time of the search, in days.
Today == 40

\* A row of table entries, as far as why_search reads it: its type, whether it has a
\* reasoning, the query keywords its content and its reasoning hold, and its
\* timestamp (the day add_entry ran, and the order within the day).
StoredRow(type, has_reasoning, content_keywords, reasoning_keywords, day, seq) ==
    [type |-> type, has_reasoning |-> has_reasoning,
     content_keywords |-> content_keywords, reasoning_keywords |-> reasoning_keywords,
     day |-> day, timestamp |-> day * 10 + seq]

\* The rows that match the query "python".
MatchingRows ==
    { StoredRow("decision", TRUE, {}, {"python"}, Today - 35, 1),
      StoredRow("decision", TRUE, {"python"}, {}, Today - 6, 2),
      StoredRow("gotcha", FALSE, {"python"}, {}, Today - 6, 3),
      StoredRow("note", FALSE, {"python"}, {}, Today, 4),
      StoredRow("note", TRUE, {"python"}, {"python"}, Today - 35, 5),
      StoredRow("goal", FALSE, {"python"}, {}, Today, 6) }

\* The matching rows in the order of the full-text index (ORDER BY rank): any order.
RankOrders(n) ==
    {rows \in [1..n -> MatchingRows] : \A i, j \in 1..n : i # j => rows[i] # rows[j]}

\* WorkshopStorageSQLite.search: the rows matching the query in rank order, the
\* first `limit` of them when limit is not 0.
Search(rows, limit) ==
    IF limit # 0 /\ limit < Len(rows) THEN SubSeq(rows, 1, limit) ELSE rows

\* type_scores.get(entry.get("type"), 30)
TypeScores(type) ==
    CASE type = "decision" -> 100
      [] type = "antipattern" -> 80
      [] type = "gotcha" -> 70
      [] type = "note" -> 50
      [] type = "preference" -> 40
      [] OTHER -> 30

\* max(0, 10 - (days_old // 7))
RecencyScore(row) ==
    LET days_old == Today - row.day
    IN  IF 10 - (days_old \div 7) > 0 THEN 10 - (days_old \div 7) ELSE 0

RECURSIVE KeywordScore(_, _, _)
\* The loop over the keywords of the query, from keyword i on.
KeywordScore(row, keywords, i) ==
    IF i > Len(keywords) THEN 0
    ELSE (IF keywords[i] \in row.content_keywords THEN 10 ELSE 0)
         + (IF keywords[i] \in row.reasoning_keywords THEN 15 ELSE 0)
         + KeywordScore(row, keywords, i + 1)

\* The score without the boost for a reasoning.
ScoreWithoutReasoningBoost(row, keywords) ==
    TypeScores(row.type) + KeywordScore(row, keywords, 1) + RecencyScore(row)

\* The score why_search gives a row.
Score(row, keywords) ==
    TypeScores(row.type)
    + (IF row.has_reasoning THEN 50 ELSE 0)
    + KeywordScore(row, keywords, 1)
    + RecencyScore(row)

\* Whether row a sorts before row b: (score, timestamp), reversed.
SortsBefore(a, b, keywords) ==
    \/ Score(a, keywords) > Score(b, keywords)
    \/ Score(a, keywords) = Score(b, keywords) /\ a.timestamp > b.timestamp

RECURSIVE SortResults(_, _, _)
\* results.sort(key=lambda x: (x[0], x[1]["timestamp"]), reverse=True), for the rows
\* from i on: a stable sort.
SortResults(rows, keywords, i) ==
    IF i > Len(rows) THEN <<>>
    ELSE LET rest == SortResults(rows, keywords, i + 1)
             before == SelectSeq(rest, LAMBDA r : SortsBefore(r, rows[i], keywords))
             after == SelectSeq(rest, LAMBDA r : ~SortsBefore(r, rows[i], keywords))
         IN  before \o <<rows[i]>> \o after

\* WorkshopStorageSQLite.why_search(query, limit)
WhySearch(rows, keywords, limit) ==
    LET sorted == SortResults(Search(rows, limit * 3), keywords, 1)
    IN  SubSeq(sorted, 1, IF limit < Len(sorted) THEN limit ELSE Len(sorted))

\* A call of why_search on a database and, once done, what it returned.
WhyCall(rows, limit) ==
    [kind |-> "why", rows |-> rows, keywords |-> <<"python">>, limit |-> limit,
     done |-> FALSE, results |-> <<>>]

InitWhy ==
    /\ Idle
    /\ \E n \in 0..MaxStored : \E rows \in RankOrders(n) : \E limit \in 1..2 :
          probe = WhyCall(rows, limit)

\* store.why_search("python", limit)
CallWhySearch ==
    /\ probe.kind = "why"
    /\ ~probe.done
    /\ probe' = [probe EXCEPT
                    !.done = TRUE,
                    !.results = WhySearch(probe.rows, probe.keywords, probe.limit)]
    /\ UNCHANGED <<jsonl_file, import_history, entries, raw_messages, pc, run, nruns>>

SpecWhy == InitWhy /\ [][CallWhySearch]_vars

(***************************************************************************)
(* One invocation of the import command over several files                 *)
(***************************************************************************)

\* Bounds of the batch: the files of one invocation and the lines of each.
MaxBatchFiles == 2
MaxBatchLen == 2

\* The files that can stand at place f of a batch: up to MaxBatchLen lines, line k
\* with uuid and timestamp (f - 1) * MaxBatchLen + k, so that uuids differ across
\* files while the text of a kind of line is the same wherever it stands.  A line
\* can hold bytes that do not decode as text, on which the reader gives up.
BatchFilesAt(f) ==
    UNION {{[k \in 1..n |-> LineOf(kinds[k], (f - 1) * MaxBatchLen + k)] :
               kinds \in [1..n -> {"decision", "twice", "plain", "empty", "garbled"}]} :
           n \in 0..MaxBatchLen}

RECURSIVE Batches(_)
\* The batches of m files.
Batches(m) ==
    IF m = 0 THEN {<<>>}
    ELSE {Append(files, file) : files \in Batches(m - 1), file \in BatchFilesAt(m)}

\* `workshop import --execute f1 f2 ...`: the files, those among them that cannot be
\* opened (missing, or not readable), the file the first loop analyzes next,
\* total_entries, the tuple of total_entries the second loop imports next, and
\* whether an exception ended the command.  The database is empty, or holds the
\* checkpoint an earlier import wrote for the first file when that file was empty.
InitBatch ==
    /\ jsonl_file = <<>>
    /\ entries = EmptyBag
    /\ raw_messages = {}
    /\ pc = "idle"
    /\ run = RunRecord(Options(TRUE, FALSE, FALSE, FALSE, NoSince, FALSE), {}, NoUuid, "none")
    /\ nruns = 0
    /\ import_history \in {{}, {ImportHistoryRow(1, CalculateFileHash(<<>>), NoUuid, 0, 0, 0)}}
    /\ \E m \in 1..MaxBatchFiles : \E files \in Batches(m) : \E unreadable \in SUBSET (1..m) :
          /\ \A f \in unreadable : files[f] = <<>>
          /\ probe = [kind |-> "batch", files |-> files, unreadable |-> unreadable,
                      analyzing |-> 1, total_entries |-> <<>>, importing |-> 1,
                      aborted |-> FALSE]

\* import_sessions, lines 1468-1534, for one file.  With a checkpoint the file is
\* hashed, outside any try: a file that cannot be opened ends the command, and a
\* file with the stored hash is skipped.  parse_jsonl_file reads a file that cannot
\* be opened as a file without messages; when it raises, the file is left out;
\* otherwise its filtered entries join total_entries.
AnalyzeFile ==
    /\ probe.kind = "batch"
    /\ ~probe.aborted
    /\ probe.analyzing <= Len(probe.files)
    /\ LET file == probe.files[probe.analyzing]
           last_import == GetLastImport(import_history, probe.analyzing)
           start_uuid == StartUuid(last_import, run.options.force)
           parser == Parser(FALSE, "none")
           responses == [i \in 1..Len(file) |-> Response(TRUE, <<>>)]
           raises == ParseJsonlFileRaises(file, start_uuid, FALSE, parser, responses)
           result == ParseJsonlFile(file, start_uuid, FALSE, parser, responses)
       IN  probe' =
              IF /\ last_import # {} /\ ~run.options.force
                 /\ probe.analyzing \in probe.unreadable
              THEN [probe EXCEPT !.aborted = TRUE]
              ELSE IF UpToDate(last_import, run.options.force, file) \/ raises
              THEN [probe EXCEPT !.analyzing = @ + 1]
              ELSE [probe EXCEPT
                       !.analyzing = @ + 1,
                       !.total_entries =
                           Append(@, [jsonl_path |-> probe.analyzing,
                                      result |-> result,
                                      entries |-> FilterEntries(result.entries,
                                                                run.options.since)])]
    /\ UNCHANGED <<jsonl_file, import_history, entries, raw_messages, pc, run, nruns>>

\* import_sessions, lines 1554-1656, for one tuple of total_entries, once the first
\* loop is over: hand its entries to storage, hash its file and record the import.
\* The file is hashed outside any try: a file that cannot be opened ends the command.
ImportFile ==
    /\ probe.kind = "batch"
    /\ ~probe.aborted
    /\ probe.analyzing > Len(probe.files)
    /\ probe.importing <= Len(probe.total_entries)
    /\ LET item == probe.total_entries[probe.importing]
       IN  /\ entries' = AddEntries(entries, item.entries, 1)
           /\ IF item.jsonl_path \in probe.unreadable
              THEN /\ probe' = [probe EXCEPT !.aborted = TRUE]
                   /\ UNCHANGED import_history
              ELSE /\ probe' = [probe EXCEPT !.importing = @ + 1]
                   /\ import_history' =
                         RecordImport(import_history, item.jsonl_path,
                                      CalculateFileHash(probe.files[item.jsonl_path]),
                                      item.result.last_message_uuid,
                                      item.result.last_message_timestamp,
                                      item.result.messages_processed, Len(item.entries))
    /\ UNCHANGED <<jsonl_file, raw_messages, pc, run, nruns>>

SpecBatch == InitBatch /\ [][AnalyzeFile \/ ImportFile]_vars

(***************************************************************************)
(* Two imports recording a checkpoint at the same time                     *)
(***************************************************************************)

\* models.ImportHistory, jsonl_path unique=True: the database refuses to add a row
\* for a path that has one.
UniqueViolation(table, path) == \E row \in table : row.jsonl_path = path

\* Two import commands, each with its own session on a single-tenant database, are
\* about to call record_import: command p with its path, with hash p and with its
\* last uuid.  The table is empty or holds a row for the first path.  Each command
\* is before its call ("start"), between its query and its commit ("queried"),
\* back from the call ("done") or left by an exception ("raised").
InitUpsert ==
    /\ Idle
    /\ \E table \in {{}, {ProjectImportHistoryRow(NoProject, JsonlPath, 0, NoUuid, 0, 0, 0)}} :
       \E path \in [1..2 -> JsonlPaths], last_uuid \in [1..2 -> {1, 2}] :
          probe = [kind |-> "upsert", table |-> table,
                   path |-> path, last_uuid |-> last_uuid,
                   at |-> [p \in 1..2 |-> "start"],
                   existing |-> [p \in 1..2 |-> FALSE],
                   overlap |-> FALSE]

\* record_import, lines 51-53: the command asks whether the path has a row.
QueryExisting ==
    /\ probe.kind = "upsert"
    /\ \E p \in 1..2 :
          /\ probe.at[p] = "start"
          /\ probe' = [probe EXCEPT
                          !.at[p] = "queried",
                          !.existing[p] = \E row \in probe.table :
                                             row.jsonl_path = probe.path[p]]
    /\ UNCHANGED <<jsonl_file, import_history, entries, raw_messages, pc, run, nruns>>

\* record_import, lines 55-76: the command updates the row it found, or adds a row,
\* and commits; the commit of an added row raises IntegrityError when the path has
\* got a row meanwhile.  The two calls overlap when both have made their query
\* before either commits.
CommitRecordImport ==
    /\ probe.kind = "upsert"
    /\ \E p \in 1..2 :
          /\ probe.at[p] = "queried"
          /\ probe' =
                IF ~probe.existing[p] /\ UniqueViolation(probe.table, probe.path[p])
                THEN [probe EXCEPT !.at[p] = "raised"]
                ELSE [probe EXCEPT
                         !.at[p] = "done",
                         !.overlap = @ \/ probe.at[3 - p] = "queried",
                         !.table = ManagerRecordImport(probe.table, NoProject,
                                                       probe.path[p], p,
                                                       probe.last_uuid[p],
                                                       probe.last_uuid[p], p, p)]
    /\ UNCHANGED <<jsonl_file, import_history, entries, raw_messages, pc, run, nruns>>

SpecUpsert == InitUpsert /\ [][QueryExisting \/ CommitRecordImport]_vars

(***************************************************************************)
(* Properties of the import command (specification Spec)                   *)
(***************************************************************************)

\* C1: idempotence of import.  An invocation without --force that finds, for the
\* path, a checkpoint row whose hash is the hash of the file as it is now skips the
\* file entirely: no message is handed to the extractors, no entry and no raw
\* message is handed to storage, and the checkpoint row is left unchanged.
ImportIdempotent ==
    [][ (/\ pc = "idle"
         /\ nruns' = nruns + 1
         /\ ~run'.options.force
         /\ \E row \in import_history :
               /\ row.jsonl_path = JsonlPath
               /\ row.jsonl_hash = CalculateFileHash(jsonl_file))
        => (/\ run'.outcome = "skipped"
            /\ pc' = "idle"
            /\ run'.processed = <<>>
            /\ run'.imported = <<>>
            /\ import_history' = import_history
            /\ entries' = entries
            /\ raw_messages' = raw_messages) ]_vars

\* An executed import stored entries and wrote the checkpoint, and a later
\* invocation on the same bytes has skipped the file.
ImportIdempotentWitness ==
    /\ run.outcome = "skipped"
    /\ entries # EmptyBag
    /\ \E row \in import_history : row.jsonl_hash = CalculateFileHash(jsonl_file)

\* C2: resumption.  An invocation without --force that finds a checkpoint, does not
\* skip the file, and whose stored last_message_uuid is the uuid of message k of the
\* file it reads, processes exactly the messages after message k, in file order.
ResumptionProcessesRemainder ==
    LET messages == ReadJsonl(run.file_at_parse)
        anchors == {k \in 1..Len(messages) : messages[k].uuid = run.start_uuid}
    IN  (/\ run.outcome \in {"failed", "preview", "parsed", "recorded"}
         /\ ~run.options.force
         /\ run.last_import # {}
         /\ run.start_uuid # NoUuid
         /\ anchors # {})
        => /\ run.outcome # "failed"
           /\ \E k \in anchors : run.processed = SubSeq(messages, k + 1, Len(messages))

\* C3: the last_message_uuid of the checkpoint never regresses.  Whenever the row of
\* a path holds a uuid, the next value of the row holds a uuid too, and one that is
\* not earlier in the file (the uuid of a message is the position of its line).
LastMessageUuidNeverRegresses ==
    [][ \A old \in import_history, new \in import_history' :
           (old.jsonl_path = new.jsonl_path /\ old.last_message_uuid # NoUuid)
           => (/\ new.last_message_uuid # NoUuid
               /\ new.last_message_uuid >= old.last_message_uuid) ]_vars

\* C4: the end state of Scenario D.  A file F was imported up to its last message,
\* one message with a uuid was appended and nothing else changed; the executed
\* invocation without --force that follows reports messages_processed = 1 and leaves
\* the checkpoint at the hash of the new content and the uuid of the new message.
ScenarioDEndState ==
    LET n == Len(jsonl_file)
        F == SubSeq(jsonl_file, 1, n - 1)
    IN  (/\ pc = "idle"
         /\ run.outcome \in {"failed", "recorded"}
         /\ run.options.execute
         /\ ~run.options.force
         /\ run.file_at_parse = jsonl_file
         /\ n >= 2
         /\ jsonl_file[n].kind = "msg"
         /\ jsonl_file[n].uuid # NoUuid
         /\ ReadJsonl(F) # <<>>
         /\ \E row \in run.last_import :
               /\ row.jsonl_hash = CalculateFileHash(F)
               /\ row.last_message_uuid # NoUuid
               /\ row.last_message_uuid = ReadJsonl(F)[Len(ReadJsonl(F))].uuid)
        => /\ run.outcome = "recorded"
           /\ run.result.messages_processed = 1
           /\ \E row \in import_history :
                 /\ row.jsonl_path = JsonlPath
                 /\ row.jsonl_hash = CalculateFileHash(jsonl_file)
                 /\ row.last_message_uuid = jsonl_file[n].uuid

\* C5: a checkpoint is upserted after every executed invocation that reaches the
\* file (that does not skip it), also when no entry was extracted: once the
\* invocation is over the path has a row, and the row holds the hash of the file the
\* invocation read if the file did not change meanwhile.  An invocation whose write
\* of the checkpoint itself raised is left aside.
CheckpointAfterEveryExecutedRun ==
    (/\ pc = "idle"
     /\ run.options.execute
     /\ run.outcome \notin {"none", "skipped", "record_failed"})
    => /\ run.outcome = "recorded"
       /\ \E row \in import_history :
             /\ row.jsonl_path = JsonlPath
             /\ (jsonl_file = run.file_at_parse
                 => row.jsonl_hash = CalculateFileHash(jsonl_file))

\* C6: force.  An invocation with --force never skips the file and processes every
\* message of the file from the first one, whatever checkpoint the path has.
ForceProcessesEveryMessage ==
    (run.options.force /\ run.outcome # "none")
    => /\ run.outcome # "skipped"
       /\ run.start_uuid = NoUuid
       /\ (run.outcome # "checking"
           => /\ run.outcome # "failed"
              /\ run.processed = ReadJsonl(run.file_at_parse))

(***************************************************************************)
(* Properties of parse_jsonl_file (specification SpecParse)                *)
(***************************************************************************)

\* C7: deduplication within a file.  In the result of a parse no two entries have
\* the same content, and the entries are, in order, the first occurrences of each
\* content among the entries the extractors returned for the messages of the pass.
DedupWithinFile ==
    LET es == probe.result.entries
        cs == probe.candidates
        first == {i \in 1..Len(cs) : \A j \in 1..(i - 1) : cs[j].content # cs[i].content}
    IN  (probe.kind = "parse" /\ probe.done /\ ~probe.raised)
        => /\ \A i, j \in 1..Len(es) : i # j => es[i].content # es[j].content
           /\ Len(es) = Cardinality(first)
           /\ \A n \in 1..Len(es) :
                 \E i \in first : /\ Cardinality({j \in first : j < i}) = n - 1
                                  /\ es[n] = cs[i]

\* Two messages with the same decision text were parsed and one entry came out.
DedupWithinFileWitness ==
    /\ probe.kind = "parse" /\ probe.done /\ ~probe.raised
    /\ \E i, j \in 1..Len(probe.messages) :
          /\ i < j
          /\ probe.messages[i].kind = "msg"
          /\ probe.messages[i].content = probe.messages[j].content
          /\ probe.messages[i].content = LineOf("decision", 1).content
    /\ Len(probe.result.entries) = 1
    /\ Len(probe.candidates) > 1

\* C8: anchor not found.  When start_from_uuid is given and is the uuid of no message
\* of the file, the parse hands no message to the extractors and returns
\* messages_processed = 0.
AnchorNotFoundProcessesNothing ==
    LET messages == ReadJsonl(probe.file)
    IN  (/\ probe.kind = "parse" /\ probe.done
         /\ probe.start_uuid # NoUuid
         /\ \A k \in 1..Len(messages) : messages[k].uuid # probe.start_uuid)
        => /\ ~probe.raised
           /\ probe.messages = <<>>
           /\ probe.candidates = <<>>
           /\ probe.result.messages_processed = 0

\* A file with messages that yield entries was parsed from an anchor it does not
\* hold.
AnchorNotFoundWitness ==
    /\ probe.kind = "parse" /\ probe.done
    /\ probe.start_uuid # NoUuid
    /\ Len(ReadJsonl(probe.file)) >= 2
    /\ \A k \in 1..Len(ReadJsonl(probe.file)) :
          ReadJsonl(probe.file)[k].uuid # probe.start_uuid
    /\ \E k \in 1..Len(probe.file) : probe.file[k] = LineOf("decision", k)
    /\ probe.result.messages_processed = 0

\* C9: malformed lines are skipped without aborting the read.  For a file that mixes
\* lines that decode and lines that do not, a parse from the start of the file
\* processes exactly the messages of the lines that decode, in file order, and its
\* last_message_uuid is the uuid of the last line that decodes.
MalformedLinesSkipped ==
    LET decodable == SelectSeq(probe.file, LAMBDA line : line.kind = "msg")
    IN  (/\ probe.kind = "parse" /\ probe.done
         /\ probe.start_uuid = NoUuid
         /\ decodable # <<>>
         /\ \E i \in 1..Len(probe.file) : probe.file[i] \in {BadLine, GarbledLine})
        => /\ ~probe.raised
           /\ probe.messages = decodable
           /\ probe.result.last_message_uuid = decodable[Len(decodable)].uuid

(***************************************************************************)
(* Properties of _extract_from_message_llm (specification SpecLlm)         *)
(***************************************************************************)

\* C10: equivalence of the fallback.  When no backend is configured, or the request
\* to the backend raises, or its answer holds no JSON object, or the object does not
\* decode, the adapter returns exactly what _extract_from_message returns for the
\* message (and raises exactly when it raises).
LlmFallbackEquivalence ==
    LET content == GetMessageContent(probe.message, FALSE)
        span == JsonSpan(probe.response.text)
        requested == /\ probe.parser.has_client
                     /\ probe.parser.llm_type \in {"anthropic", "local"}
                     /\ probe.message.type \in {"user", "assistant"}
                     /\ content # <<>>
                     /\ TextLen(content) >= LlmMinLen
        failed == \/ ~probe.parser.has_client
                  \/ /\ requested
                     /\ \/ probe.response.raised
                        \/ span = <<>>
                        \/ JsonLoadsRaises(span)
    IN  (probe.kind = "llm" /\ probe.done /\ failed)
        => /\ probe.raised = ExtractFromMessageRaises(probe.message)
           /\ (~probe.raised => probe.entries = ExtractFromMessage(probe.message))

\* A backend answered without a JSON object and the adapter returned the decision
\* of the pattern extractor, with confidence 0.70.
LlmFallbackWitness ==
    /\ probe.kind = "llm" /\ probe.done
    /\ probe.parser.has_client
    /\ ~probe.response.raised
    /\ JsonSpan(probe.response.text) = <<>>
    /\ probe.entries # <<>>
    /\ \E k \in 1..Len(probe.entries) :
          probe.entries[k].type = "decision" /\ probe.entries[k].confidence = 70

\* C11: the adapter never propagates an exception.  For every message and every
\* outcome of the backend (none configured, an error, any answer),
\* _extract_from_message_llm returns a list of entries.
LlmAdapterNeverRaises ==
    (probe.kind = "llm" /\ probe.done) => ~probe.raised

\* C12: gating of requests.  With a backend configured, the adapter sends a request
\* only for a message of type user or assistant whose extracted text has at least 50
\* characters; for every other message it sends no request and returns no entry.
LlmRequestGating ==
    LET content == GetMessageContent(probe.message, FALSE)
        eligible == /\ probe.message.type \in {"user", "assistant"}
                    /\ TextLen(content) >= 50
    IN  (probe.kind = "llm" /\ probe.done /\ probe.parser.has_client)
        => /\ probe.requested => eligible
           /\ ~eligible => (~probe.requested /\ ~probe.raised /\ probe.entries = <<>>)

\* With a backend, no request went out for a text of 49 characters and the adapter
\* returned no entry, where the pattern extractors take a decision from the text.
LlmRequestGatingWitness ==
    /\ probe.kind = "llm" /\ probe.done /\ probe.parser.has_client
    /\ TextLen(GetMessageContent(probe.message, FALSE)) = 49
    /\ ~probe.requested
    /\ probe.entries = <<>>
    /\ ExtractFromMessage(probe.message) # <<>>

(***************************************************************************)
(* Properties of parse_jsonl_file (specification SpecParse), continued     *)
(***************************************************************************)

\* C13: confidence is fixed by the producing strategy.  Every entry built from an
\* answer of the backend has confidence 0.95 and every decision of the pattern
\* extractors has confidence 0.70, before and after deduplication; the entries of
\* the result are entries the extractors returned, unchanged.
ConfidenceFixedByStrategy ==
    LET span == JsonSpan(probe.response.text)
        answered == /\ probe.use_llm
                    /\ ~probe.response.raised
                    /\ span # <<>>
                    /\ ~JsonLoadsRaises(span)
        fixed(e) == IF answered THEN e.confidence = 95
                    ELSE e.type = "decision" => e.confidence = 70
    IN  (probe.kind = "parse" /\ probe.done /\ ~probe.raised)
        => /\ \A k \in 1..Len(probe.candidates) : fixed(probe.candidates[k])
           /\ \A k \in 1..Len(probe.result.entries) :
                 /\ fixed(probe.result.entries[k])
                 /\ \E j \in 1..Len(probe.candidates) :
                       probe.candidates[j] = probe.result.entries[k]

\* A pass without backend returned a decision that carries a reasoning, with
\* confidence 0.70, next to entries of other confidences.
ConfidenceFixedWitness ==
    /\ probe.kind = "parse" /\ probe.done /\ ~probe.raised /\ ~probe.use_llm
    /\ \E k \in 1..Len(probe.result.entries) :
          /\ probe.result.entries[k].type = "decision"
          /\ probe.result.entries[k].reasoning # <<>>
          /\ probe.result.entries[k].confidence = 70
    /\ \E k \in 1..Len(probe.result.entries) : probe.result.entries[k].confidence # 70

\* C14: tool errors bypass noise and role.  For a message of any role, every
\* tool_result fragment with is_error true and a non-empty content, with or without
\* a tool_use_id and at any position of the content list, yields one gotcha
\* "Tool error: " + the first 200 characters of its content, with confidence 0.90,
\* whether or not the text of the message is noise or empty.
ToolErrorsBypassNoiseAndRole ==
    (probe.kind = "parse" /\ probe.done /\ ~probe.raised /\ ~probe.use_llm)
    => \A i \in 1..Len(probe.messages) :
          LET parts == probe.messages[i].content.parts
              failed == {k \in 1..Len(parts) :
                            /\ parts[k].ptype = "tool_result"
                            /\ parts[k].is_error
                            /\ parts[k].content # <<>>}
              reported == {j \in 1..Len(probe.candidates) :
                              /\ probe.candidates[j].timestamp = probe.messages[i].timestamp
                              /\ probe.candidates[j].type = "gotcha"
                              /\ probe.candidates[j].content[1] = "tool_error"}
              first200(c) == SubSeq(c, 1, IF Len(c) < 2 THEN Len(c) ELSE 2)
          IN  /\ Cardinality(reported) = Cardinality(failed)
              /\ \A j \in reported :
                    /\ probe.candidates[j].confidence = 90
                    /\ \E k \in failed :
                          probe.candidates[j].content
                              = <<"tool_error">> \o first200(parts[k].content)

(***************************************************************************)
(* Properties of _extract_from_message and _is_noise (specification        *)
(* SpecExtract)                                                            *)
(***************************************************************************)

\* C15: gating by role.  Preferences and compaction summaries come from user messages
\* only; summary sections, completion summaries, problem/solution entries and
\* discoveries from assistant messages only; a message of another type yields no
\* entry.  The same preference sentence yields a preference (confidence 0.60) from a
\* user message and none from an assistant message.
RoleGating ==
    LET type == probe.message.type
        last(e) == e.content[Len(e.content)]
        userOnly(e) == \/ e.type = "preference"
                       \/ e.type = "note" /\ e.content[1] = "header"
        assistantOnly(e) ==
            \/ e.type = "note" /\ e.content[1] \in {"h_summary", "h_fixed"}
            \/ e.type = "note" /\ e.confidence = 95
            \/ e.type = "gotcha" /\ e.content[1] = "problem_was"
            \/ e.type = "gotcha" /\ e.content[1] = "found_that" /\ last(e) = "dot"
        preferences == {k \in 1..Len(probe.entries) : probe.entries[k].type = "preference"}
    IN  (probe.kind = "extract" /\ probe.done /\ ~probe.raised)
        => /\ \A k \in 1..Len(probe.entries) :
                 /\ userOnly(probe.entries[k]) => type = "user"
                 /\ assistantOnly(probe.entries[k]) => type = "assistant"
           /\ type \notin {"user", "assistant"} => probe.entries = <<>>
           /\ probe.message.content \in {StrContent(PreferenceSentence),
                                         StrContent(DecisionThenPreference)}
              => /\ type = "user"
                    => \E k \in preferences : probe.entries[k].confidence = 60
                 /\ type = "assistant" => preferences = {}

\* An assistant message with a decision and a preference sentence yielded the
\* decision and no preference.
RoleGatingWitness ==
    /\ probe.kind = "extract" /\ probe.done
    /\ probe.message.type = "assistant"
    /\ probe.message.content = StrContent(DecisionThenPreference)
    /\ \E k \in 1..Len(probe.entries) : probe.entries[k].type = "decision"
    /\ \A k \in 1..Len(probe.entries) : probe.entries[k].type # "preference"

\* C16: order of the noise rules, first match wins.  A text shorter than 20
\* characters is noise; otherwise a text with the continuation marker is not noise,
\* even when it starts like JSON, holds a code keyword or a hook marker, or starts
\* with an error prefix; otherwise each of those four makes it noise; otherwise it
\* is not noise.
NoiseRuleOrder ==
    LET text == probe.content
        short == TextLen(text) < 20
        continued == \E i \in 1..Len(text) : text[i] \in {"marker_full", "marker_short"}
        likeJson == text # <<>> /\ text[1] = "json_obj"
        code == \E i \in 1..Len(text) : text[i] = "code_def"
        hook == \E i \in 1..Len(text) : text[i] = "hook"
        errorPrefix == text # <<>> /\ text[1] = "error_colon"
    IN  (probe.kind = "noise" /\ probe.done)
        => probe.is_noise = IF short THEN TRUE
                            ELSE IF continued THEN FALSE
                            ELSE likeJson \/ code \/ hook \/ errorPrefix

\* A text that starts like JSON, holds a code keyword and a hook marker, and holds
\* the continuation marker, was found not to be noise.
NoiseRuleOrderWitness ==
    /\ probe.kind = "noise" /\ probe.done
    /\ probe.content = <<"json_obj", "marker_short", "code_def", "hook">>
    /\ ~probe.is_noise

(***************************************************************************)
(* Properties of the import command (specification Spec), continued        *)
(***************************************************************************)

\* C17: a preview is read-only.  No step of an invocation without --execute hands an
\* entry or a raw message to storage or creates or updates a checkpoint row,
\* whatever its other flags; when the preview ends, the checkpoint of the path is
\* the one the invocation found when it started.
PreviewReadOnly ==
    [][ /\ (run' # run /\ ~run'.options.execute)
           => UNCHANGED <<entries, raw_messages, import_history>>
        /\ (run' # run /\ run'.outcome = "preview")
           => GetLastImport(import_history', JsonlPath) = run'.last_import ]_vars

\* After an executed import and an appended message, a preview with --force and
\* --store-raw-messages found entries to import and left the checkpoint as it was.
PreviewReadOnlyWitness ==
    /\ run.outcome = "preview"
    /\ run.options.force /\ run.options.store_raw_messages
    /\ run.filtered_entries # <<>>
    /\ run.last_import # {}
    /\ GetLastImport(import_history, JsonlPath) = run.last_import
    /\ \E row \in run.last_import : row.jsonl_hash # CalculateFileHash(jsonl_file)

(***************************************************************************)
(* Properties of the checkpoint store (specification SpecStore)            *)
(***************************************************************************)

\* C18: round trip of the checkpoint store.  get_last_import(path) returns None for
\* a path never recorded; after any sequence of record_import calls the table holds
\* exactly one row per recorded path; and get_last_import(path), called by the
\* storage that made the latest record_import for the path, returns the hash, last
\* uuid, last timestamp and counts of that call.
CheckpointRoundTrip ==
    probe.kind = "store"
    => /\ \A path \in JsonlPaths :
             Cardinality({row \in probe.table : row.jsonl_path = path})
                 = IF probe.latest[path] = NoCall THEN 0 ELSE 1
       /\ probe.call.op = "get_last_import"
          => LET latest == probe.latest[probe.call.path]
             IN  /\ latest = NoCall => probe.call.result = {}
                 /\ (latest # NoCall /\ latest.project_id = probe.call.project_id)
                    => probe.call.result = {latest.row}

(***************************************************************************)
(* Properties of why_search (specification SpecWhy)                        *)
(***************************************************************************)

\* C19: relevance ranking.  why_search(query, N) returns the N best entries among
\* all stored entries matching the query, ordered by (score descending, timestamp
\* descending), where score = type_priority[type] + 50 if a reasoning is present
\* + 10 per query keyword in the content + 15 per query keyword in the reasoning
\* + max(0, 10 - days_old/7) (whole weeks), type_priority being decision 100,
\* antipattern 80, gotcha 70, note 50, preference 40, other 30.
WhySearchBestOfAll ==
    LET priority(type) == CASE type = "decision" -> 100 [] type = "antipattern" -> 80
                            [] type = "gotcha" -> 70 [] type = "note" -> 50
                            [] type = "preference" -> 40 [] OTHER -> 30
        hits(held) == Cardinality({i \in 1..Len(probe.keywords) : probe.keywords[i] \in held})
        weeks(r) == (Today - r.day) \div 7
        score(r) == priority(r.type)
                    + (IF r.has_reasoning THEN 50 ELSE 0)
                    + 10 * hits(r.content_keywords)
                    + 15 * hits(r.reasoning_keywords)
                    + (IF weeks(r) < 10 THEN 10 - weeks(r) ELSE 0)
        better(a, b) == \/ score(a) > score(b)
                        \/ score(a) = score(b) /\ a.timestamp > b.timestamp
        matching == {probe.rows[i] : i \in 1..Len(probe.rows)}
        returned == {probe.results[i] : i \in 1..Len(probe.results)}
    IN  (probe.kind = "why" /\ probe.done)
        => /\ Len(probe.results)
                 = (IF probe.limit < Len(probe.rows) THEN probe.limit ELSE Len(probe.rows))
           /\ returned \subseteq matching
           /\ \A i, j \in 1..Len(probe.results) :
                 i < j => better(probe.results[i], probe.results[j])
           /\ \A r \in returned : \A m \in matching \ returned : better(r, m)

\* C19, amended: the entries returned are the N best of the first 3N entries that
\* search(query) returns in the order of the full-text index, not of all matching
\* entries; order and score are as the claim says.
WhySearchBestOfCandidates ==
    LET priority(type) == CASE type = "decision" -> 100 [] type = "antipattern" -> 80
                            [] type = "gotcha" -> 70 [] type = "note" -> 50
                            [] type = "preference" -> 40 [] OTHER -> 30
        hits(held) == Cardinality({i \in 1..Len(probe.keywords) : probe.keywords[i] \in held})
        weeks(r) == (Today - r.day) \div 7
        score(r) == priority(r.type)
                    + (IF r.has_reasoning THEN 50 ELSE 0)
                    + 10 * hits(r.content_keywords)
                    + 15 * hits(r.reasoning_keywords)
                    + (IF weeks(r) < 10 THEN 10 - weeks(r) ELSE 0)
        better(a, b) == \/ score(a) > score(b)
                        \/ score(a) = score(b) /\ a.timestamp > b.timestamp
        ncandidates == IF 3 * probe.limit < Len(probe.rows) THEN 3 * probe.limit
                       ELSE Len(probe.rows)
        candidates == {probe.rows[i] : i \in 1..ncandidates}
        returned == {probe.results[i] : i \in 1..Len(probe.results)}
    IN  (probe.kind = "why" /\ probe.done)
        => /\ Len(probe.results)
                 = (IF probe.limit < ncandidates THEN probe.limit ELSE ncandidates)
           /\ returned \subseteq candidates
           /\ \A i, j \in 1..Len(probe.results) :
                 i < j => better(probe.results[i], probe.results[j])
           /\ \A r \in returned : \A m \in candidates \ returned : better(r, m)

\* Four entries match, the limit is 1, and the decision the index ranks fourth,
\* which scores highest of all, is not the entry returned.
WhySearchWitness ==
    /\ probe.kind = "why" /\ probe.done
    /\ probe.limit = 1
    /\ Len(probe.rows) = 4
    /\ probe.rows[4].type = "decision"
    /\ \A i \in 1..3 : probe.rows[i].type \in {"note", "goal", "gotcha"}
                       /\ ~probe.rows[i].has_reasoning
    /\ Len(probe.results) = 1
    /\ probe.results[1] # probe.rows[4]

(***************************************************************************)
(* Properties of a batch import (specification SpecBatch)                  *)
(***************************************************************************)

\* C20: the scope of deduplication is the whole invocation.  Once one invocation
\* over several files has imported everything it kept, no two entries handed to
\* storage have the same content: content that appears in two files of the batch is
\* handed to storage once.
DedupAcrossFiles ==
    (/\ probe.kind = "batch"
     /\ ~probe.aborted
     /\ probe.analyzing > Len(probe.files)
     /\ probe.importing > Len(probe.total_entries))
    => \A e \in BagToSet(entries) :
          /\ CopiesIn(e, entries) = 1
          /\ \A other \in BagToSet(entries) : other.content = e.content => other = e

(***************************************************************************)
(* Properties of the import command (specification Spec), third part       *)
(***************************************************************************)

\* C21: checkpoint ordering.  The checkpoint of the file changes only in the step
\* that ends an executed import, and in that step every entry the invocation kept
\* (every entry parse_jsonl_file returned, when neither --since nor --interactive is
\* given) has been handed to storage; the row then holds the uuid and the timestamp
\* of the last message of the pass in file order, whatever its type and whether or
\* not an entry came from it.
CheckpointOrdering ==
    [][ /\ import_history' # import_history
           => run' # run /\ run'.outcome = "recorded"
        /\ (run' # run /\ run'.outcome = "recorded")
           => /\ \A i \in 1..Len(run'.imported) :
                    BagIn(StoredEntry(run'.imported[i]), entries')
              /\ (~run'.options.interactive /\ ~run'.options.since.given)
                 => run'.imported = run'.result.entries
              /\ \A row \in GetLastImport(import_history', JsonlPath) :
                    run'.processed # <<>>
                    => LET last == run'.processed[Len(run'.processed)]
                       IN  /\ row.last_message_uuid = GetUuid(last)
                           /\ row.last_message_timestamp = last.timestamp
              /\ GetLastImport(import_history', JsonlPath) # {} ]_vars

\* An executed import of a decision followed by a message that yields nothing: the
\* decision is in storage and the row holds the uuid of the second message.
CheckpointOrderingWitness ==
    /\ run.outcome = "recorded"
    /\ Len(run.processed) = 2
    /\ Len(run.imported) = 1
    /\ run.imported[1].source_uuid = GetUuid(run.processed[1])
    /\ BagIn(StoredEntry(run.imported[1]), entries)
    /\ run.last_import # {}
    /\ \E row \in import_history :
          /\ row.jsonl_path = JsonlPath
          /\ row.last_message_uuid = GetUuid(run.processed[2])
          /\ row.last_message_uuid # NoUuid

(***************************************************************************)
(* Properties of _extract_from_message (specification SpecExtract), second *)
(* part                                                                    *)
(***************************************************************************)

\* C22: noise stops text extraction.  When the text of a user or assistant message
\* is noise (and is not exempted by the continuation marker), every entry
\* _extract_from_message returns for it is a tool error: none comes from the
\* extractors that read the text.
NoiseStopsTextExtraction ==
    (/\ probe.kind = "extract"
     /\ probe.done /\ ~probe.raised
     /\ probe.message.type \in {"user", "assistant"}
     /\ IsNoise(IF probe.message.content.shape = "str"
                THEN probe.message.content.text
                ELSE JoinTexts(probe.message.content.parts, 1)))
    => \A i \in 1..Len(probe.entries) :
          /\ probe.entries[i].type = "gotcha"
          /\ probe.entries[i].content[1] = "tool_error"
          /\ probe.entries[i].confidence = 90

\* A user message with a failed tool result and a text that names a session hook
\* and then states a decision and a preference: the tool error is returned, the
\* decision and the preference are not.
NoiseStopsTextExtractionWitness ==
    /\ probe.kind = "extract"
    /\ probe.done /\ ~probe.raised
    /\ probe.message.type = "user"
    /\ probe.message.content.shape = "list"
    /\ Len(probe.message.content.parts) = 2
    /\ probe.message.content.parts[2].text = <<"hook", "dot">> \o DecisionThenPreference
    /\ IsNoise(probe.message.content.parts[2].text)
    /\ Len(probe.entries) = 1
    /\ probe.entries[1].content[1] = "tool_error"

(***************************************************************************)
(* Properties of a batch import (specification SpecBatch), second part     *)
(***************************************************************************)

\* C23: the failure of a file is local to the file.  When the command is over, every
\* file of the batch that can be read and parsed has its checkpoint, with the hash
\* of the file, whatever happened to the files that cannot be opened.
FileFailureIsLocal ==
    (/\ probe.kind = "batch"
     /\ \/ probe.aborted
        \/ /\ probe.analyzing > Len(probe.files)
           /\ probe.importing > Len(probe.total_entries))
    => \A f \in 1..Len(probe.files) :
          (/\ f \notin probe.unreadable
           /\ ~ParseJsonlFileRaises(probe.files[f], NoUuid, FALSE, Parser(FALSE, "none"),
                                    [i \in 1..Len(probe.files[f]) |-> Response(TRUE, <<>>)]))
          => \E row \in import_history :
                /\ row.jsonl_path = f
                /\ row.jsonl_hash = CalculateFileHash(probe.files[f])

(***************************************************************************)
(* Properties of the import command (specification Spec), fourth part      *)
(***************************************************************************)

\* C24: a failed checkpoint write keeps the re-run idempotent.  When an import
\* without --force that found no checkpoint for the file has recorded its import,
\* so that whatever storage held before came from imports whose checkpoint write
\* failed, every entry in storage is there once.
RerunAfterFailedCheckpointStoresOnce ==
    (/\ run.outcome = "recorded"
     /\ ~run.options.force
     /\ run.last_import = {})
    => \A e \in BagToSet(entries) : CopiesIn(e, entries) = 1

(***************************************************************************)
(* Properties of parse_jsonl_file (specification SpecParse), second part   *)
(***************************************************************************)

\* C25: extractor errors are isolated.  parse_jsonl_file does not raise, whatever
\* the messages of the file; and the entries of every message on which the
\* extractors do not raise are in its result (the first of equal contents).
ExtractorErrorsIsolated ==
    (probe.kind = "parse" /\ probe.done)
    => /\ ~probe.raised
       /\ LET parser == IF probe.use_llm THEN Parser(TRUE, "anthropic")
                        ELSE Parser(FALSE, "none")
              responses == [i \in 1..Len(probe.file) |-> probe.response]
              messages == MessagesToProcess(probe.file, probe.start_uuid)
          IN  \A i \in 1..Len(messages) :
                 ~ExtractFnRaises(messages, i, probe.use_llm, parser, responses)
                 => LET found == IF probe.use_llm
                                 THEN ExtractFromMessageLlm(parser, messages[i], responses[i])
                                 ELSE ExtractFromMessage(messages[i])
                    IN  \A k \in 1..Len(found) :
                           \E j \in 1..Len(probe.result.entries) :
                              probe.result.entries[j].content = found[k].content

(***************************************************************************)
(* Properties of the import command (specification Spec), fifth part       *)
(***************************************************************************)

\* C26: no message is processed twice.  Over a file that only grows by appended
\* lines, when every invocation so far was executed, without --force, and wrote its
\* checkpoint, an executed invocation without --force hands to the extractors no
\* message an earlier invocation handed to them.
NoMessageProcessedTwice ==
    (/\ run.plain_runs_before
     /\ run.options.execute
     /\ ~run.options.force)
    => \A i \in 1..Len(run.processed) :
          run.processed[i].timestamp \notin run.handed_before

\* C27: no message is lost to a concurrent append.  Whenever the checkpoint an
\* invocation has just written holds the hash of the file as it is now, so that
\* the next invocation without --force will skip the file, the invocation read
\* every message the file holds: the last message of the file is the last message
\* of what it read, and the row holds its uuid.
NoMessageLostToAppend ==
    (/\ run.outcome = "recorded"
     /\ \E row \in import_history : row.jsonl_hash = CalculateFileHash(jsonl_file))
    => /\ ReadJsonl(jsonl_file) = ReadJsonl(run.file_at_parse)
       /\ \A row \in import_history :
             (run.processed # <<>> /\ ReadJsonl(jsonl_file) # <<>>)
             => row.last_message_uuid
                   = GetUuid(ReadJsonl(jsonl_file)[Len(ReadJsonl(jsonl_file))])

(***************************************************************************)
(* Properties of a batch import (specification SpecBatch), third part      *)
(***************************************************************************)

\* C28: a failed read does not mark a file as imported.  When the command is over,
\* a file that holds messages but on which the reader gave up part-way, returning
\* no message, has no checkpoint with the hash of the file: a later invocation
\* without --force will not skip it.
FailedReadNotMarkedImported ==
    (/\ probe.kind = "batch"
     /\ \/ probe.aborted
        \/ /\ probe.analyzing > Len(probe.files)
           /\ probe.importing > Len(probe.total_entries))
    => \A f \in 1..Len(probe.files) :
          (/\ \E k \in 1..Len(probe.files[f]) : probe.files[f][k] = GarbledLine
           /\ \E k \in 1..Len(probe.files[f]) : probe.files[f][k].kind = "msg")
          => ~\E row \in import_history :
                 /\ row.jsonl_path = f
                 /\ row.jsonl_hash = CalculateFileHash(probe.files[f])

(***************************************************************************)
(* Properties of concurrent record_import calls (specification SpecUpsert) *)
(***************************************************************************)

\* C29: concurrent upsert of the checkpoint.  When two record_import calls for the
\* same path have overlapped and both are over, both have succeeded, the path has
\* exactly one row, and the row holds the values of one of the two calls.
ConcurrentUpsertBothSucceed ==
    (/\ probe.kind = "upsert"
     /\ probe.overlap
     /\ probe.path[1] = probe.path[2]
     /\ \A p \in 1..2 : probe.at[p] \in {"done", "raised"})
    => /\ \A p \in 1..2 : probe.at[p] = "done"
       /\ Cardinality({row \in probe.table : row.jsonl_path = probe.path[1]}) = 1
       /\ \E p \in 1..2 :
             ProjectImportHistoryRow(NoProject, probe.path[p], p, probe.last_uuid[p],
                                     probe.last_uuid[p], p, p) \in probe.table

(***************************************************************************)
(* Properties of _extract_from_message_llm (specification SpecLlm),        *)
(* continued                                                               *)
(***************************************************************************)

\* C30: tool errors under both strategies.  With a backend that answers, every
\* "Tool error" gotcha that _extract_from_message returns for a user message is also
\* among the entries _extract_from_message_llm returns for it, whatever the length
\* of the text of the message and whatever the answer holds.
ToolErrorsUnderBothStrategies ==
    LET message == probe.message
        errors == ExtractToolErrors(message, message.timestamp, message.uuid)
    IN  (/\ probe.kind = "llm" /\ probe.done
         /\ probe.parser.has_client
         /\ probe.parser.llm_type \in {"anthropic", "local"}
         /\ ~probe.response.raised
         /\ message.type = "user"
         /\ FirstContentHasToolUseId(message))
        => \A k \in 1..Len(errors) :
              /\ \E i \in 1..Len(ExtractFromMessage(message)) :
                    ExtractFromMessage(message)[i] = errors[k]
              /\ ~probe.raised
              /\ \E j \in 1..Len(probe.entries) : probe.entries[j] = errors[k]

====
